---- MODULE Spec2Model ----
(***************************************************************************)
(* Model of the per-modality two-factor locker firmware                    *)
(* (src/unnamed/part_002, lines 659-1657): keypad PIN and fingerprint      *)
(* authentication, per-modality lockout, admin flows.                      *)
(*                                                                         *)
(* Characters are modelled by their ASCII codes ('0' = 48, '#' = 35,       *)
(* '*' = 42); EEPROM bytes are numbers 0..255.  Time is millis() in ms.    *)
(* Every handler is an operator from the program state (a record of the    *)
(* globals) to the program state it leaves; the actions apply them.        *)
(*                                                                         *)
(* Two specifications bound the environment in two ways.  Spec is the      *)
(* locker with its admin flows (change PIN, enroll, delete, toggle mode),  *)
(* used by enrolled users who type a PIN attempt in one go.  AuthSpec is   *)
(* the locker in service, key by key, with any finger on the sensor, the   *)
(* admin gestures left alone.                                              *)
(***************************************************************************)
EXTENDS Integers, Sequences, FiniteSets, TLC

----------------------------------------------------------------------------
(* Program constants (struct Config)                                       *)

PIN_LENGTH == 6
STAR_THRESHOLD == 12
HASH_THRESHOLD == 12
AUTH_MODE_ADDR == 10
MAX_WRONG_ATTEMPTS == 5
LOCKOUT_TIME == 30000
SINGLE_FACTOR == 0
TWO_FACTOR == 1
EEPROM_BLANK == 255
UINT8_MOD == 256
UINT16_MOD == 65536

INACTIVITY_TIME == 8000
SLEEP_AFTER == 5000
LOW == 0
HIGH == 1

KEY_STAR == 42
KEY_HASH == 35
DigitChar(d) == 48 + d

DEFAULT_PIN == <<DigitChar(1), DigitChar(2), DigitChar(3),
                 DigitChar(4), DigitChar(5), DigitChar(6)>>

----------------------------------------------------------------------------
(* Bounds of the model (the environment's inputs)                          *)

\* time advances in steps of TickMs, at most MaxTicks steps per power-on session
TickMs == 15000
MaxTicks == 2

\* an idle period is observed every IdleMs
IdleMs == 7000

\* failed attempts in a row are counted up to MaxFails
MaxFails == 6

\* gesture keys: a single '*' (or '#') is pressed only while fewer than
\* GestureLoose presses are counted; the twelve-press gestures are completed in
\* one run of presses with no other event in between
GestureLoose == 1

\* digit strings a user sets out to type at the ready screen
WRONG_PIN == <<DigitChar(1), DigitChar(2), DigitChar(3),
               DigitChar(4), DigitChar(5), DigitChar(5)>>
SHORT_PIN == <<DigitChar(1), DigitChar(2), DigitChar(3)>>
LONG_PIN == <<DigitChar(1), DigitChar(2), DigitChar(3), DigitChar(4),
              DigitChar(5), DigitChar(6), DigitChar(1)>>
TypedPins == {DEFAULT_PIN, WRONG_PIN, SHORT_PIN}

\* strings entered at the prompts of getInput
NewPins == {WRONG_PIN, SHORT_PIN, <<>>, LONG_PIN}
TypedIds == {<<>>, <<DigitChar(0)>>, <<DigitChar(1)>>}

\* the same and a number of three digits
WideIds == TypedIds \cup {<<DigitChar(2), DigitChar(5), DigitChar(6)>>}

IsPrefix(p, q) == Len(p) <= Len(q) /\ \A i \in 1..Len(p) : p[i] = q[i]
DigitKeys == {DigitChar(d) : d \in 1..6}
Keys == DigitKeys \cup {KEY_STAR, KEY_HASH}

----------------------------------------------------------------------------
(* Credential store: EEPROM bytes 0..5 hold the PIN, byte 10 the auth mode *)

EepromAddrs == 0..AUTH_MODE_ADDR

\* variant: only the bytes of the new PIN are written
setPasswordNoFill(e, newPassword) ==
    [a \in EepromAddrs |-> IF a < Len(newPassword) THEN newPassword[a + 1] ELSE e[a]]

\* variant: the zero fill runs on to the end of the store
setPasswordClearsMode(e, newPassword) ==
    [a \in EepromAddrs |-> IF a < Len(newPassword) THEN newPassword[a + 1] ELSE 0]

\* setPassword(): writes the PIN_LENGTH bytes at 0..5, zero-filling the tail
setPassword(e, newPassword) ==
    [a \in EepromAddrs |->
        IF a < PIN_LENGTH
        THEN (IF a < Len(newPassword) THEN newPassword[a + 1] ELSE 0)
        ELSE e[a]]

\* getPassword(): the bytes at 0..5 up to the first zero byte
RECURSIVE ReadPassword(_, _)
ReadPassword(e, i) ==
    IF i >= PIN_LENGTH \/ e[i] = 0 THEN <<>>
    ELSE <<e[i]>> \o ReadPassword(e, i + 1)

getPassword(e) == ReadPassword(e, 0)

setAuthMode(e, mode) == [e EXCEPT ![AUTH_MODE_ADDR] = mode]

getAuthMode(e) ==
    IF e[AUTH_MODE_ADDR] = TWO_FACTOR THEN TWO_FACTOR ELSE SINGLE_FACTOR

\* (millis() - start) < limit in unsigned 32-bit arithmetic.  The clock values of
\* this model stay below 2^31, so when now < start the unsigned difference
\* 2^32 - (start - now) is above 2^31 and the test is false.
ElapsedLess(now, start, limit) ==
    IF now >= start THEN now - start < limit ELSE FALSE

----------------------------------------------------------------------------
(* Feedback: s.shown tells that displayMessage() was called, s.buzzed that *)
(* soundBuzzer() was.                                                      *)

\* displayMessage(line1, line2, delayTime): two lines written to the LCD
displayMessage(s) == [s EXCEPT !.shown = TRUE]

\* soundBuzzer(pattern): every pattern plays at least one tone
soundBuzzer(s, pattern) == [s EXCEPT !.buzzed = TRUE]

----------------------------------------------------------------------------
(* unlockDoor(): success pattern on the buzzer, relay driven LOW           *)
(* (unlocked), held UNLOCK_TIME, driven HIGH (locked) again.  s.unlocked   *)
(* counts the calls, s.pulses the times the relay went from HIGH to LOW.   *)

\* digitalWrite(PinConfig::RELAY, level)
writeRelay(s, level) ==
    [s EXCEPT !.relay = level,
              !.pulses = IF level = LOW /\ s.relay = HIGH THEN @ + 1 ELSE @]

\* variant: the relay is left at the unlocked level
unlockDoorNoRelock(s) ==
    writeRelay(soundBuzzer([s EXCEPT !.unlocked = @ + 1], 0), LOW)

unlockDoor(s) ==
    writeRelay(writeRelay(soundBuzzer([s EXCEPT !.unlocked = @ + 1], 0), LOW), HIGH)

----------------------------------------------------------------------------
(* checkPassword()                                                         *)

\* lines 1542-1556: compare the typed digits with EEPROM bytes 0..5
PinMatches(s) ==
    /\ \A i \in 0..(PIN_LENGTH - 1) :
          i < Len(s.input_password) => s.input_password[i + 1] = s.eeprom[i]
    /\ Len(s.input_password) = PIN_LENGTH

\* variant: a correct PIN completes a grant whichever flag is already set
PinSuccessEitherFlag(s) ==
    IF getAuthMode(s.eeprom) = TWO_FACTOR
    THEN IF s.fingerprint_verified \/ s.pin_verified
         THEN unlockDoor(displayMessage([s EXCEPT !.wrong_pin_attempts = 0,
                                                  !.pin_verified = FALSE,
                                                  !.fingerprint_verified = FALSE,
                                                  !.out = "pin_ok"]))
         ELSE displayMessage([s EXCEPT !.pin_verified = TRUE, !.out = "pin_ok"])
    ELSE unlockDoor(displayMessage([s EXCEPT !.wrong_pin_attempts = 0,
                                             !.out = "pin_ok"]))

\* lines 1557-1584: the PIN is correct
PinSuccess(s) ==
    IF getAuthMode(s.eeprom) = TWO_FACTOR
    THEN IF s.fingerprint_verified
         THEN unlockDoor(displayMessage([s EXCEPT !.wrong_pin_attempts = 0,
                                                  !.pin_verified = FALSE,
                                                  !.fingerprint_verified = FALSE,
                                                  !.out = "pin_ok"]))
         ELSE displayMessage([s EXCEPT !.pin_verified = TRUE, !.out = "pin_ok"])
    ELSE unlockDoor(displayMessage([s EXCEPT !.wrong_pin_attempts = 0,
                                             !.out = "pin_ok"]))

\* variant: the lockout begins one failure late
PinFailureLate(s, now) ==
    LET n == s.wrong_pin_attempts + 1 IN
    IF n > MAX_WRONG_ATTEMPTS
    THEN soundBuzzer(displayMessage([s EXCEPT !.wrong_pin_attempts = n,
                                              !.is_pin_locked_out = TRUE,
                                              !.pin_lockout_start = now,
                                              !.out = "pin_now_locked"]), 3)
    ELSE soundBuzzer(displayMessage([s EXCEPT !.wrong_pin_attempts = n,
                                              !.out = "pin_fail"]), 1)

\* lines 1585-1608: the PIN is wrong
PinFailure(s, now) ==
    LET n == s.wrong_pin_attempts + 1 IN
    IF n >= MAX_WRONG_ATTEMPTS
    THEN soundBuzzer(displayMessage([s EXCEPT !.wrong_pin_attempts = n,
                                              !.is_pin_locked_out = TRUE,
                                              !.pin_lockout_start = now,
                                              !.out = "pin_now_locked"]), 3)
    ELSE soundBuzzer(displayMessage([s EXCEPT !.wrong_pin_attempts = n,
                                              !.out = "pin_fail"]), 1)

\* variant: the expired lockout is lifted, the failures stay counted
PinLockoutExpiredKeepCount(s) == [s EXCEPT !.is_pin_locked_out = FALSE]

\* lines 1536-1539 and 1090-1093: the lockout window has elapsed
PinLockoutExpired(s) ==
    [s EXCEPT !.is_pin_locked_out = FALSE, !.wrong_pin_attempts = 0]

\* 2^32 = UINT32_THOUSANDS * 1000 + UINT32_REST
UINT32_THOUSANDS == 4294967
UINT32_REST == 296

\* (Config::LOCKOUT_TIME - (millis() - lockout_start)) / 1000 in unsigned long
\* arithmetic, millis() read at t: past the window the subtraction wraps
\* around 2^32
remainingTime(t, start) ==
    LET x == t - start IN
    IF x <= LOCKOUT_TIME
    THEN (LOCKOUT_TIME - x) \div 1000
    ELSE UINT32_THOUSANDS + (UINT32_REST - (x - LOCKOUT_TIME)) \div 1000

\* is the PIN modality locked out and its window still running
PinWindowRunning(s, now) ==
    s.is_pin_locked_out /\ ElapsedLess(now, s.pin_lockout_start, LOCKOUT_TIME)

checkPassword(s, now) ==
    IF PinWindowRunning(s, now)
    THEN soundBuzzer(displayMessage(
             [s EXCEPT !.out = "pin_locked",
                       !.remaining = remainingTime(now, s.pin_lockout_start)]), 1)
    ELSE LET s1 == IF s.is_pin_locked_out THEN PinLockoutExpired(s) ELSE s
             s2 == IF PinMatches(s1) THEN PinSuccess(s1) ELSE PinFailure(s1, now)
         IN  [s2 EXCEPT !.input_password = <<>>]

----------------------------------------------------------------------------
(* Fingerprint sensor.  A poll f is what the sensor answers in one pass of *)
(* getFingerprintID: f.r is "nofinger" (getImage fails), "imgerr"          *)
(* (image2Tz fails), "nomatch" (fingerFastSearch fails) or "match" with    *)
(* f.id the matched template's location.                                   *)

FpPolls(templates) ==
    {[r |-> x, id |-> 0] : x \in {"nofinger", "imgerr", "nomatch"}}
        \cup {[r |-> "match", id |-> t] : t \in templates}

\* the answers to the fingers of enrolled users only
EnrolledPolls(templates) == {f \in FpPolls(templates) : f.r \in {"nofinger", "match"}}

\* the answers that differ from FINGERPRINT_OK at finger.getImage(), at
\* finger.image2Tz() and at finger.fingerFastSearch(); the comm_ answers are a
\* communication failure at that call
NoImage == {"nofinger", "comm_image"}
NoFeatures == {"imgerr", "comm_convert"}
NoSearch == {"nomatch", "comm_search"}

\* the milliseconds a call of finger.getImage() takes to answer f
ImageMs(f) == IF "ms" \in DOMAIN f THEN f.ms ELSE 0

\* every answer of the sensor, communication failures included
SensorPolls(templates) ==
    FpPolls(templates)
        \cup {[r |-> x, id |-> 0] : x \in {"comm_image", "comm_convert", "comm_search"}}

\* variant: the expired lockout leaves the failure counter as it was
FpLockoutExpiredKeepCount(s) == [s EXCEPT !.is_fp_locked_out = FALSE]

\* lines 1370-1373: the lockout window has elapsed
FpLockoutExpired(s) ==
    [s EXCEPT !.is_fp_locked_out = FALSE, !.wrong_fp_attempts = 0]

FpWindowRunning(s, now) ==
    s.is_fp_locked_out /\ ElapsedLess(now, s.fp_lockout_start, LOCKOUT_TIME)

\* variant: a failed search drops the PIN already verified
FpFailureDropsPin(s, now) ==
    LET n == s.wrong_fp_attempts + 1 IN
    IF n >= MAX_WRONG_ATTEMPTS
    THEN soundBuzzer(displayMessage([s EXCEPT !.wrong_fp_attempts = n,
                                              !.is_fp_locked_out = TRUE,
                                              !.fp_lockout_start = now,
                                              !.pin_verified = FALSE,
                                              !.out = "fp_now_locked"]), 3)
    ELSE soundBuzzer(displayMessage([s EXCEPT !.wrong_fp_attempts = n,
                                              !.pin_verified = FALSE,
                                              !.out = "fp_fail"]), 1)

\* lines 1387-1407: the search found no match
FpFailure(s, now) ==
    LET n == s.wrong_fp_attempts + 1 IN
    IF n >= MAX_WRONG_ATTEMPTS
    THEN soundBuzzer(displayMessage([s EXCEPT !.wrong_fp_attempts = n,
                                              !.is_fp_locked_out = TRUE,
                                              !.fp_lockout_start = now,
                                              !.out = "fp_now_locked"]), 3)
    ELSE soundBuzzer(displayMessage([s EXCEPT !.wrong_fp_attempts = n,
                                              !.out = "fp_fail"]), 1)

\* variant: a match resets the failure counters of both modalities
FpSuccessResetsBoth(s, f) ==
    [st |-> [s EXCEPT !.wrong_fp_attempts = 0, !.wrong_pin_attempts = 0,
                      !.out = IF f.id % UINT8_MOD = 0 THEN "fp_id0" ELSE @],
     id |-> f.id % UINT8_MOD]

\* lines 1409-1414: a match; the identity is returned as uint8_t
FpSuccess(s, f) ==
    [st |-> [s EXCEPT !.wrong_fp_attempts = 0,
                      !.out = IF f.id % UINT8_MOD = 0 THEN "fp_id0" ELSE @],
     id |-> f.id % UINT8_MOD]

\* variant: one lockout for both modalities
getFingerprintIDSharedLockout(s, f, now) ==
    LET s0 == [s EXCEPT !.sensed = TRUE] IN
    IF FpWindowRunning(s, now) \/ PinWindowRunning(s, now)
    THEN [st |-> IF f.r \notin NoImage
                 THEN soundBuzzer(displayMessage([s0 EXCEPT !.out = "fp_locked"]), 1)
                 ELSE s0,
          id |-> 0]
    ELSE LET s1 == IF s.is_fp_locked_out THEN FpLockoutExpired(s0) ELSE s0
             s2 == displayMessage([s1 EXCEPT !.last_activity = now])
         IN
         CASE f.r \in NoImage    -> [st |-> s1, id |-> 0]
           [] f.r \in NoFeatures -> [st |-> displayMessage(s2), id |-> 0]
           [] f.r \in NoSearch   -> [st |-> FpFailure(s2, now), id |-> 0]
           [] OTHER              -> FpSuccess(s2, f)

\* getFingerprintID(): the state it leaves and the identity it returns; every
\* path calls finger.getImage(), and "Processing..." is shown once it succeeds.
\* Line 1360 reads millis() before finger.getImage() is called, line 1363
\* reads it again after the sensor has answered
getFingerprintID(s, f, now) ==
    LET s0 == [s EXCEPT !.sensed = TRUE] IN
    IF FpWindowRunning(s, now)
    THEN [st |-> IF f.r \notin NoImage
                 THEN soundBuzzer(displayMessage(
                          [s0 EXCEPT !.out = "fp_locked",
                                     !.remaining = remainingTime(now + ImageMs(f),
                                                                 s.fp_lockout_start)]), 1)
                 ELSE s0,
          id |-> 0]
    ELSE LET s1 == IF s.is_fp_locked_out THEN FpLockoutExpired(s0) ELSE s0
             s2 == displayMessage([s1 EXCEPT !.last_activity = now])
         IN
         CASE f.r \in NoImage    -> [st |-> s1, id |-> 0]
           [] f.r \in NoFeatures -> [st |-> displayMessage(s2), id |-> 0]
           [] f.r \in NoSearch   -> [st |-> FpFailure(s2, now), id |-> 0]
           [] OTHER              -> FpSuccess(s2, f)

\* variant: a match is remembered in SINGLE_FACTOR mode too
FpAcceptedRemembered(s, isPinVerified, mode, fingerprintID) ==
    IF mode = TWO_FACTOR
    THEN IF isPinVerified
         THEN unlockDoor(displayMessage([s EXCEPT !.pin_verified = FALSE,
                                                  !.fingerprint_verified = FALSE,
                                                  !.out = "fp_ok"]))
         ELSE displayMessage([s EXCEPT !.fingerprint_verified = TRUE,
                                       !.verified_fingerprint_id = fingerprintID,
                                       !.out = "fp_ok"])
    ELSE unlockDoor(displayMessage([s EXCEPT !.fingerprint_verified = TRUE,
                                             !.verified_fingerprint_id = fingerprintID,
                                             !.out = "fp_ok"]))

\* lines 976-1010: a non-zero identity was returned
FpAccepted(s, isPinVerified, mode, fingerprintID) ==
    IF mode = TWO_FACTOR
    THEN IF isPinVerified
         THEN unlockDoor(displayMessage([s EXCEPT !.pin_verified = FALSE,
                                                  !.fingerprint_verified = FALSE,
                                                  !.out = "fp_ok"]))
         ELSE displayMessage([s EXCEPT !.fingerprint_verified = TRUE,
                                       !.verified_fingerprint_id = fingerprintID,
                                       !.out = "fp_ok"])
    ELSE unlockDoor(displayMessage([s EXCEPT !.out = "fp_ok"]))

handleFingerprint(s, f, now) ==
    LET isPinVerified == s.pin_verified
        mode == getAuthMode(s.eeprom)
        g == getFingerprintID(s, f, now)
    IN  IF g.id # 0
        THEN [FpAccepted(g.st, isPinVerified, mode, g.id) EXCEPT !.last_activity = now]
        ELSE g.st

----------------------------------------------------------------------------
(* Admin flows.  The strings read by getInput and the sensor's answers are *)
(* the fields of inp: cur (current PIN typed), new (new PIN typed),        *)
(* choice (menu key), id (digits typed at "Enter ID:"), ok (the sensor     *)
(* completes the enrollment / deletion).                                   *)

\* variant: the new PIN is stored without comparing the current one
changePasswordUnverified(s, inp) ==
    IF Len(inp.new) > 0 /\ Len(inp.new) <= PIN_LENGTH
    THEN displayMessage([s EXCEPT !.eeprom = setPassword(s.eeprom, inp.new),
                                  !.out = "pin_changed"])
    ELSE displayMessage([s EXCEPT !.out = "change_invalid"])

\* variant: a wrong current PIN counts as a failed PIN attempt
changePasswordCountsFailure(s, inp) ==
    IF inp.cur # getPassword(s.eeprom)
    THEN [PinFailure(s, 0) EXCEPT !.out = "change_denied"]
    ELSE IF Len(inp.new) > 0 /\ Len(inp.new) <= PIN_LENGTH
         THEN displayMessage([s EXCEPT !.eeprom = setPassword(s.eeprom, inp.new),
                                       !.out = "pin_changed"])
         ELSE displayMessage([s EXCEPT !.out = "change_invalid"])

\* changePassword()
changePassword(s, inp) ==
    IF inp.cur # getPassword(s.eeprom)
    THEN displayMessage([s EXCEPT !.out = "change_denied"])
    ELSE IF Len(inp.new) > 0 /\ Len(inp.new) <= PIN_LENGTH
         THEN displayMessage([s EXCEPT !.eeprom = setPassword(s.eeprom, inp.new),
                                       !.out = "pin_changed"])
         ELSE displayMessage([s EXCEPT !.out = "change_invalid"])

\* String::toInt() of a string of digits; the empty string gives 0
RECURSIVE toInt(_)
toInt(str) ==
    IF str = <<>> THEN 0
    ELSE 10 * toInt(SubSeq(str, 1, Len(str) - 1)) + (str[Len(str)] - DigitChar(0))

\* getIDFromInput(): the number typed at "Enter ID:"
getIDFromInput(inp) == toInt(inp.id)

\* getFingerprintEnroll(uint8_t id): the sensor is driven through the capture
\* sequence; inp.ok tells whether it completes and stores the model
getFingerprintEnroll(s, id, inp) ==
    IF inp.ok
    THEN displayMessage([s EXCEPT !.sensed = TRUE,
                                  !.templates = @ \cup {id % UINT8_MOD},
                                  !.out = "enrolled"])
    ELSE displayMessage([s EXCEPT !.sensed = TRUE, !.out = "enroll_failed"])

\* variant: any identity typed is enrolled
enrollFingerprintAnyId(s, inp) ==
    getFingerprintEnroll(displayMessage(s), getIDFromInput(inp), inp)

\* enrollFingerprint()
enrollFingerprint(s, inp) ==
    LET s1 == displayMessage(s)
        id == getIDFromInput(inp)
    IN  IF id = 0
        THEN displayMessage([s1 EXCEPT !.out = "enroll_invalid"])
        ELSE getFingerprintEnroll(displayMessage(s1), id, inp)

\* deleteFingerprint(): deleteModel takes the identity as uint16_t
deleteFingerprint(s, inp) ==
    LET id == getIDFromInput(inp) IN
    IF inp.ok
    THEN displayMessage([s EXCEPT !.sensed = TRUE,
                                  !.templates = @ \ {id % UINT16_MOD},
                                  !.out = "deleted"])
    ELSE displayMessage([s EXCEPT !.sensed = TRUE, !.out = "delete_failed"])

\* variant: the toggle decides on the raw mode byte
toggleAuthModeRawByte(s) ==
    LET newMode == IF s.eeprom[AUTH_MODE_ADDR] = SINGLE_FACTOR
                   THEN TWO_FACTOR ELSE SINGLE_FACTOR
    IN  displayMessage([s EXCEPT !.eeprom = setAuthMode(s.eeprom, newMode),
                                 !.out = "mode_toggled"])

\* lines 1131-1138: menu choice '3'
toggleAuthMode(s) ==
    LET currentMode == getAuthMode(s.eeprom)
        newMode == IF currentMode = SINGLE_FACTOR THEN TWO_FACTOR ELSE SINGLE_FACTOR
    IN  displayMessage([s EXCEPT !.eeprom = setAuthMode(s.eeprom, newMode),
                                 !.out = "mode_toggled"])

\* lines 1110-1146: the admin menu behind twelve '#' presses
adminMenu(s, inp) ==
    IF inp.cur # getPassword(s.eeprom)
    THEN displayMessage([s EXCEPT !.out = "admin_denied", !.hash_count = 0,
                                  !.input_password = <<>>])
    ELSE LET m == displayMessage(s)
             s1 == CASE inp.choice = DigitChar(1) -> enrollFingerprint(m, inp)
                     [] inp.choice = DigitChar(2) -> deleteFingerprint(m, inp)
                     [] inp.choice = DigitChar(3) -> toggleAuthMode(m)
                     [] OTHER -> [m EXCEPT !.out = "admin_exit"]
         IN  [s1 EXCEPT !.hash_count = 0]

----------------------------------------------------------------------------
(* handleKeypad() for a key that scanKeypad() returned                     *)

\* variant: a single '*' leaves the digits typed so far
starKeyKeepsInput(s, inp) ==
    IF s.star_count + 1 >= STAR_THRESHOLD
    THEN [changePassword(s, inp) EXCEPT !.star_count = 0]
    ELSE [s EXCEPT !.star_count = @ + 1]

\* lines 1097-1106
starKey(s, inp) ==
    IF s.star_count + 1 >= STAR_THRESHOLD
    THEN [changePassword(s, inp) EXCEPT !.star_count = 0]
    ELSE [s EXCEPT !.star_count = @ + 1, !.input_password = <<>>]

\* variant: '#' submits the buffer even when it is empty
hashKeyAlwaysChecks(s, inp, now) ==
    LET s1 == [s EXCEPT !.hash_count = @ + 1] IN
    IF s1.hash_count >= HASH_THRESHOLD
    THEN adminMenu(s1, inp)
    ELSE [checkPassword(s1, now) EXCEPT !.input_password = <<>>]

\* lines 1108-1153
hashKey(s, inp, now) ==
    LET s1 == [s EXCEPT !.hash_count = @ + 1] IN
    IF s1.hash_count >= HASH_THRESHOLD
    THEN adminMenu(s1, inp)
    ELSE LET s2 == IF Len(s1.input_password) > 0 THEN checkPassword(s1, now) ELSE s1
         IN  [s2 EXCEPT !.input_password = <<>>]

\* lines 1155-1163
digitKey(s, key, now) ==
    LET s1 == [s EXCEPT !.hash_count = 0]
        s2 == IF Len(s1.input_password) < PIN_LENGTH
              THEN LET s3 == [s1 EXCEPT !.input_password = Append(@, key)] IN
                   IF Len(s3.input_password) >= PIN_LENGTH
                   THEN checkPassword(s3, now) ELSE s3
              ELSE s1
    IN  [s2 EXCEPT !.star_count = 0]

\* variant: a key rejected during the lockout counts as a failed attempt
PinRejectedCounted(s, now) ==
    soundBuzzer(displayMessage([s EXCEPT !.out = "pin_locked",
                                         !.wrong_pin_attempts = @ + 1]), 1)

\* lines 1079-1088: the key is rejected, the remaining time is shown
PinRejected(s, now) ==
    soundBuzzer(displayMessage(
        [s EXCEPT !.out = "pin_locked",
                  !.remaining = remainingTime(now, s.pin_lockout_start)]), 1)

\* line 1073 stamps last_activity for every key; the stamps at the end of
\* changePassword() and enrollFingerprint() repeat it within the same step
handleKeypad(s, key, inp, now) ==
    LET s0 == [s EXCEPT !.last_activity = now] IN
    IF PinWindowRunning(s0, now)
    THEN PinRejected(s0, now)
    ELSE LET s1 == IF s0.is_pin_locked_out THEN PinLockoutExpired(s0) ELSE s0 IN
         CASE key = KEY_STAR -> starKey(s1, inp)
           [] key = KEY_HASH -> hashKey(s1, inp, now)
           [] OTHER -> digitKey(s1, key, now)

----------------------------------------------------------------------------
(* handleInactivity(): past INACTIVITY_TIME without activity the backlight *)
(* goes off; SLEEP_AFTER later esp_deep_sleep_start() is called.  Deep     *)
(* sleep keeps the EEPROM and the sensor's templates only: the wake-up is  *)
(* a reset, the globals take their initial values and setup() runs.        *)

\* millis() - last_activity > limit
IdleLonger(s, now, limit) == ~ElapsedLess(now, s.last_activity, limit + 1)

handleInactivity(s, now) ==
    IF IdleLonger(s, now, INACTIVITY_TIME)
    THEN IF IdleLonger(s, now, INACTIVITY_TIME + SLEEP_AFTER)
         THEN displayMessage([s EXCEPT !.out = "sleep"])
         ELSE [s EXCEPT !.out = "dimmed"]
    ELSE [s EXCEPT !.out = "lit"]

----------------------------------------------------------------------------
(* The shared-counter firmwares: src/src/LOCKER_V3.cpp and src/code.ino.   *)
(* One counter wrong_attempts and one flag lockout_mode serve the keypad   *)
(* and the sensor.  Their globals are the fields of a record s; s.log      *)
(* lists, in order, what one pass of loop() did:                           *)
(*   "key" a key was taken from the keypad, "pin_ok" / "pin_fail"          *)
(*   checkPassword() compared, "search_ok" / "search_fail"                 *)
(*   fingerFastSearch() answered, "unlock" the relay was driven LOW,       *)
(*   "lock" lockout_mode was set, "expire" it was cleared.                 *)
(* No serial host is attached: Serial.available() is 0.                    *)

DEFAULT_PASSWORD == <<DigitChar(0), DigitChar(0), DigitChar(0), DigitChar(0)>>
PASSWORD_DIGITS == 4
LOCKOUT_DURATION == 30000
NoKey == 0

\* keys pressed on the shared-counter firmwares' keypad
SharedKeys == {DigitChar(0), DigitChar(1), KEY_STAR, KEY_HASH}

Logged(s, e) == [s EXCEPT !.log = Append(@, e)]

\* LOCKER_V3.cpp unlockDoor()
V3_unlockDoor(s) ==
    [Logged([s EXCEPT !.relay = LOW], "unlock") EXCEPT !.relay = HIGH]

\* LOCKER_V3.cpp activateLockoutMode()
V3_activateLockoutMode(s, now) ==
    Logged([s EXCEPT !.lockout_mode = TRUE, !.lockout_start_time = now], "lock")

\* LOCKER_V3.cpp checkPassword()
V3_checkPassword(s, now) ==
    LET s1 == IF s.input_password = DEFAULT_PASSWORD
              THEN V3_unlockDoor(Logged([s EXCEPT !.wrong_attempts = 0], "pin_ok"))
              ELSE LET s2 == Logged([s EXCEPT !.wrong_attempts = @ + 1], "pin_fail") IN
                   IF s2.wrong_attempts >= MAX_WRONG_ATTEMPTS
                   THEN V3_activateLockoutMode(s2, now)
                   ELSE s2
    IN  [s1 EXCEPT !.input_password = <<>>]

\* LOCKER_V3.cpp getFingerprintID(): the state it leaves, the identity returned
V3_getFingerprintID(s, f, now) ==
    CASE f.r = "nofinger" -> [st |-> s, id |-> 0]
      [] f.r = "imgerr"   -> [st |-> [s EXCEPT !.lastActivityTime = now], id |-> 0]
      [] f.r = "nomatch"  ->
            LET s1 == Logged([s EXCEPT !.lastActivityTime = now,
                                       !.wrong_attempts = @ + 1], "search_fail")
            IN  [st |-> IF s1.wrong_attempts >= MAX_WRONG_ATTEMPTS
                        THEN V3_activateLockoutMode(s1, now) ELSE s1,
                 id |-> 0]
      [] OTHER -> [st |-> Logged([s EXCEPT !.lastActivityTime = now], "search_ok"),
                   id |-> f.id % UINT8_MOD]

\* LOCKER_V3.cpp handleFingerprint()
V3_handleFingerprint(s, f, now) ==
    LET g == V3_getFingerprintID(s, f, now) IN
    IF g.id # 0
    THEN [V3_unlockDoor([g.st EXCEPT !.wrong_attempts = 0])
            EXCEPT !.lastActivityTime = now]
    ELSE g.st

\* LOCKER_V3.cpp handleKeypad(); key is what keypad.getKey() returns
V3_handleKeypad(s, key, now) ==
    IF key = NoKey THEN s
    ELSE LET s0 == Logged(s, "key")
             s1 == CASE key = KEY_STAR -> [s0 EXCEPT !.input_password = <<>>]
                     [] key = KEY_HASH -> V3_checkPassword(s0, now)
                     [] OTHER ->
                          LET s2 == [s0 EXCEPT !.input_password = Append(@, key)] IN
                          IF Len(s2.input_password) >= PASSWORD_DIGITS
                          THEN V3_checkPassword(s2, now) ELSE s2
         IN  [s1 EXCEPT !.lastActivityTime = now]

\* LOCKER_V3.cpp handleLockoutMode(): current_time - lockout_start_time >=
\* LOCKOUT_DURATION ends the lockout
\* variant: the lockout is lifted at half its duration
V3_handleLockoutModeEarly(s, now) ==
    IF ~ElapsedLess(now, s.lockout_start_time, LOCKOUT_DURATION \div 2)
    THEN Logged([s EXCEPT !.lockout_mode = FALSE, !.wrong_attempts = 0], "expire")
    ELSE s

V3_handleLockoutMode(s, now) ==
    IF ~ElapsedLess(now, s.lockout_start_time, LOCKOUT_DURATION)
    THEN Logged([s EXCEPT !.lockout_mode = FALSE, !.wrong_attempts = 0], "expire")
    ELSE s

\* LOCKER_V3.cpp loop(): one pass with the sensor answering f and the keypad key
V3_loop(s, f, key, now) ==
    IF s.lockout_mode
    THEN V3_handleLockoutMode(s, now)
    ELSE V3_handleKeypad(V3_handleFingerprint(s, f, now), key, now)

\* code.ino unlockDoor()
Ino_unlockDoor(s) ==
    [Logged([s EXCEPT !.relay = LOW], "unlock") EXCEPT !.relay = HIGH]

\* code.ino activateLockoutMode()
Ino_activateLockoutMode(s, now) ==
    Logged([s EXCEPT !.lockout_mode = TRUE, !.lockout_start_time = now], "lock")

\* code.ino checkPassword()
Ino_checkPassword(s, now) ==
    LET s1 == IF s.input_password = DEFAULT_PASSWORD
              THEN Ino_unlockDoor(Logged([s EXCEPT !.wrong_attempts = 0], "pin_ok"))
              ELSE LET s2 == Logged([s EXCEPT !.wrong_attempts = @ + 1], "pin_fail") IN
                   IF s2.wrong_attempts >= MAX_WRONG_ATTEMPTS
                   THEN Ino_activateLockoutMode(s2, now)
                   ELSE s2
    IN  [s1 EXCEPT !.input_password = <<>>]

\* code.ino getFingerprintID(): the state it leaves, the identity returned
Ino_getFingerprintID(s, f, now) ==
    CASE f.r = "nofinger" -> [st |-> s, id |-> 0]
      [] f.r = "imgerr"   -> [st |-> [s EXCEPT !.lastActivityTime = now], id |-> 0]
      [] f.r = "nomatch"  ->
            [st |-> Logged([s EXCEPT !.lastActivityTime = now], "search_fail"),
             id |-> 0]
      [] OTHER -> [st |-> Logged([s EXCEPT !.lastActivityTime = now], "search_ok"),
                   id |-> f.id % UINT8_MOD]

\* code.ino loop(), lines 121-139: the lockout check; done tells that loop()
\* returns at once
Ino_lockoutCheck(s, now) ==
    IF s.lockout_mode
    THEN IF ~ElapsedLess(now, s.lockout_start_time, LOCKOUT_DURATION)
         THEN [st |-> Logged([s EXCEPT !.lockout_mode = FALSE,
                                       !.wrong_attempts = 0], "expire"),
               done |-> FALSE]
         ELSE [st |-> s, done |-> TRUE]
    ELSE [st |-> s, done |-> FALSE]

\* code.ino loop(), lines 160-171: the sensor
Ino_fingerprint(s, f, now) ==
    LET g == Ino_getFingerprintID(s, f, now) IN
    IF g.id # 0
    THEN [Ino_unlockDoor([g.st EXCEPT !.wrong_attempts = 0])
            EXCEPT !.lastActivityTime = now]
    ELSE g.st

\* code.ino loop(), lines 173-214: the keypad
Ino_keypad(s, key, now) ==
    IF key = NoKey THEN s
    ELSE LET s0 == Logged(s, "key")
             s1 == CASE key = KEY_STAR -> [s0 EXCEPT !.input_password = <<>>]
                     [] key = KEY_HASH -> Ino_checkPassword(s0, now)
                     [] OTHER ->
                          LET s2 == [s0 EXCEPT !.input_password = Append(@, key)] IN
                          IF Len(s2.input_password) >= PASSWORD_DIGITS
                          THEN Ino_checkPassword(s2, now) ELSE s2
         IN  [s1 EXCEPT !.lastActivityTime = now]

\* code.ino loop(): one pass with the sensor answering f and the keypad key
Ino_loop(s, f, key, now) ==
    LET c == Ino_lockoutCheck(s, now) IN
    IF c.done THEN c.st
    ELSE Ino_keypad(Ino_fingerprint(c.st, f, now), key, now)

\* the globals' initial values, the same in both firmwares; setup() drives the
\* relay HIGH
SharedPowerOn ==
    [input_password |-> <<>>, wrong_attempts |-> 0,
     lockout_mode |-> FALSE, lockout_start_time |-> 0,
     lastActivityTime |-> 0, relay |-> HIGH, log |-> <<>>]

----------------------------------------------------------------------------
(* getFingerprintEnroll() pass by pass.  e is the position in it: pc the   *)
(* wait it is in, waited the milliseconds since that wait began, id the    *)
(* identity confirmed at the prompt, stored whether storeModel() succeeded. *)
(* a is what the sensor answers in one pass of a wait loop: img for        *)
(* getImage(), tz for image2Tz(), model for createModel(), store for       *)
(* storeModel(), ms the time getImage() took.                              *)

FINGERPRINT_TIMEOUT_MS == 10000
REMOVAL_WAIT_MS == 5000
POLL_DELAY_MS == 100

EnrollIdle == [pc |-> "idle", waited |-> 0, id |-> 0, stored |-> FALSE]

SensorAnswers ==
    [img : {"ok", "nofinger", "other"}, tz : BOOLEAN, model : BOOLEAN,
     store : BOOLEAN, ms : {0, 50}]

\* variant: a failed attempt starts the capture sequence again
enrollAbandonRetry(e) == [e EXCEPT !.pc = "capture1", !.waited = 0]

\* getFingerprintEnroll() returns false; enrollFingerprint(), line 1466,
\* ignores the result and goes on to line 1469
enrollAbandon(e) == [e EXCEPT !.pc = "return", !.waited = 0]

\* captureFingerprintImage(), lines 1473-1486: one pass of its loop, or the
\* timeout; next is the position after a converted image
captureFingerprintImage(e, a, next) ==
    IF ~(e.waited < FINGERPRINT_TIMEOUT_MS)
    THEN enrollAbandon(e)
    ELSE IF a.img = "ok"
         THEN (IF a.tz THEN next ELSE enrollAbandon(e))
         ELSE [e EXCEPT !.waited = @ + a.ms + POLL_DELAY_MS]

\* getFingerprintEnroll(), lines 1488-1511: one pass of the wait it is in
getFingerprintEnrollStep(e, a) ==
    CASE e.pc = "capture1" ->
            captureFingerprintImage(e, a, [e EXCEPT !.pc = "removal", !.waited = 0])
      [] e.pc = "removal" ->
            IF ~(e.waited < REMOVAL_WAIT_MS) \/ a.img = "nofinger"
            THEN [e EXCEPT !.pc = "capture2", !.waited = 0]
            ELSE [e EXCEPT !.waited = @ + a.ms + POLL_DELAY_MS]
      [] e.pc = "capture2" ->
            captureFingerprintImage(e, a,
                IF a.model /\ a.store
                THEN [e EXCEPT !.pc = "return", !.waited = 0, !.stored = TRUE]
                ELSE enrollAbandon(e))
      [] OTHER -> EnrollIdle

----------------------------------------------------------------------------
(* State                                                                   *)

VARIABLES
    eeprom,                  \* EEPROM bytes 0..10
    templates,               \* locations of the templates stored in the sensor
    input_password,          \* the first input_length bytes of the input buffer
    star_count, hash_count,
    pin_verified, fingerprint_verified, verified_fingerprint_id,
    wrong_pin_attempts, wrong_fp_attempts,
    pin_lockout_start, fp_lockout_start,
    is_pin_locked_out, is_fp_locked_out,
    relay,                   \* level of the relay pin: LOW unlocks
    last_activity,           \* millis() at the last key or finger
    shared,                  \* globals of the shared-counter firmware (a
                             \* separate device, idle in the per-modality runs)
    fails,                   \* history: failed attempts in a row on that device
    enroll,                  \* position in getFingerprintEnroll(), see EnrollIdle
    now,                     \* millis()
    last,                    \* history: what the last step did (see Outcome)
    pinSince, fpSince,       \* history: a PIN success / a match since the last unlock
    pinFresh, fpFresh,       \* history: lockout expired, no verdict of the modality since
    consecPin, consecFp      \* history: failed verifications in a row

progVars == <<eeprom, templates, input_password, star_count, hash_count,
              pin_verified, fingerprint_verified, verified_fingerprint_id,
              wrong_pin_attempts, wrong_fp_attempts,
              pin_lockout_start, fp_lockout_start,
              is_pin_locked_out, is_fp_locked_out, relay>>

histVars == <<last, pinSince, fpSince, pinFresh, fpFresh, consecPin, consecFp>>

vars == <<progVars, last_activity, now, histVars, shared, fails, enroll>>

input_length == Len(input_password)

\* the globals on entry to a handler; out, unlocked, pulses, sensed, shown and
\* buzzed are what the handler did: its outcome, the unlockDoor() calls it
\* made, the relay pulses, whether it called the fingerprint sensor,
\* displayMessage(), soundBuzzer()
Globals ==
    [eeprom |-> eeprom, templates |-> templates,
     input_password |-> input_password,
     star_count |-> star_count, hash_count |-> hash_count,
     pin_verified |-> pin_verified,
     fingerprint_verified |-> fingerprint_verified,
     verified_fingerprint_id |-> verified_fingerprint_id,
     wrong_pin_attempts |-> wrong_pin_attempts,
     wrong_fp_attempts |-> wrong_fp_attempts,
     pin_lockout_start |-> pin_lockout_start,
     fp_lockout_start |-> fp_lockout_start,
     is_pin_locked_out |-> is_pin_locked_out,
     is_fp_locked_out |-> is_fp_locked_out,
     relay |-> relay,
     last_activity |-> last_activity,
     out |-> "none", unlocked |-> 0, pulses |-> 0, sensed |-> FALSE,
     shown |-> FALSE, buzzed |-> FALSE, remaining |-> -1]

\* lines 733-755: the globals' initial values; setupPins() drives the relay HIGH
PowerOn(e, t) ==
    [eeprom |-> e, templates |-> t,
     input_password |-> <<>>,
     star_count |-> 0, hash_count |-> 0,
     pin_verified |-> FALSE, fingerprint_verified |-> FALSE,
     verified_fingerprint_id |-> 0,
     wrong_pin_attempts |-> 0, wrong_fp_attempts |-> 0,
     pin_lockout_start |-> 0, fp_lockout_start |-> 0,
     is_pin_locked_out |-> FALSE, is_fp_locked_out |-> FALSE,
     relay |-> HIGH,
     last_activity |-> 0,
     out |-> "boot", unlocked |-> 0, pulses |-> 0, sensed |-> FALSE,
     shown |-> FALSE, buzzed |-> FALSE, remaining |-> -1]

\* variant: every start writes the default PIN
setupAlwaysDefault(s) ==
    [s EXCEPT !.eeprom = setPassword(s.eeprom, DEFAULT_PIN), !.last_activity = 0]

\* variant: a blank EEPROM is left blank
setupNeverSeeds(s) == [s EXCEPT !.last_activity = 0]

\* setup(), lines 832-836: a blank EEPROM gets the default PIN; line 847
\* stamps last_activity with millis(), which restarts at 0 on every reset
setup(s) ==
    LET s1 == IF s.eeprom[0] = EEPROM_BLANK
              THEN [s EXCEPT !.eeprom = setPassword(s.eeprom, DEFAULT_PIN)]
              ELSE s
    IN  [s1 EXCEPT !.last_activity = 0]

BlankEeprom == [a \in EepromAddrs |-> EEPROM_BLANK]

----------------------------------------------------------------------------
(* History variables.  They record what happened; no handler reads them.   *)

PinVerdicts == {"pin_ok", "pin_fail", "pin_now_locked"}
FpVerdicts == {"fp_ok", "fp_id0", "fp_fail", "fp_now_locked"}
PinFailures == {"pin_fail", "pin_now_locked"}
FpFailures == {"fp_fail", "fp_now_locked"}

\* the step of handler h ("key", "fp") that was offered offer ("pin": the
\* stored credential was submitted, "match": the sensor matched a template,
\* "admin": the stored credential was entered at an admin flow's prompt,
\* "none") and leaves the globals as in r:
\*   kind      its outcome, or idle when it decided nothing
\*   unlocked  the number of unlockDoor() calls
\*   pulses    the number of times the relay went from HIGH to LOW
\*   sensed    it called the fingerprint sensor
\*   shown     it called displayMessage()
\*   buzzed    it called soundBuzzer()
\*   remaining the seconds shown on a rejection, -1 when none was shown
\*   offer     what it was offered
\*   prePin, preFp  pin_verified and fingerprint_verified on entry
\*   preMode   getAuthMode() on entry
\*   inWindow  the handler's modality was locked out, window running, on entry
\*   first     a verdict, the first of its modality since its lockout expired
\*   fifth     a failed verification, the MAX_WRONG_ATTEMPTS-th in a row
\*   hadPin, hadFp  an unlock with a PIN success / a match since the last unlock
\*   cut       a reset that came while a lockout window was running
Outcome(r, h, idle, offer) ==
    [kind |-> IF r.out = "none" THEN idle ELSE r.out,
     unlocked |-> r.unlocked,
     pulses |-> r.pulses,
     sensed |-> r.sensed,
     shown |-> r.shown,
     buzzed |-> r.buzzed,
     remaining |-> r.remaining,
     offer |-> offer,
     prePin |-> pin_verified,
     preFp |-> fingerprint_verified,
     preMode |-> getAuthMode(eeprom),
     inWindow |-> \/ h = "key" /\ PinWindowRunning(Globals, now)
                  \/ h = "fp" /\ FpWindowRunning(Globals, now),
     first |-> \/ r.out \in PinVerdicts /\ (pinFresh \/ is_pin_locked_out)
               \/ r.out \in FpVerdicts /\ (fpFresh \/ is_fp_locked_out),
     fifth |-> \/ r.out \in PinFailures /\ consecPin + 1 >= MAX_WRONG_ATTEMPTS
               \/ r.out \in FpFailures /\ consecFp + 1 >= MAX_WRONG_ATTEMPTS,
     hadPin |-> r.unlocked > 0 /\ (pinSince \/ r.out = "pin_ok"),
     hadFp |-> r.unlocked > 0 /\ (fpSince \/ r.out \in {"fp_ok", "fp_id0"}),
     cut |-> FALSE]

Consec(c, out, failures, verdicts) ==
    IF out \in failures
    THEN (IF out \in {"pin_now_locked", "fp_now_locked"} \/ c + 1 >= MAX_WRONG_ATTEMPTS
          THEN 0 ELSE c + 1)
    ELSE IF out \in verdicts THEN 0 ELSE c

History(r, h, idle, offer) ==
    /\ last' = Outcome(r, h, idle, offer)
    /\ pinSince' = IF r.unlocked > 0 THEN FALSE ELSE (pinSince \/ r.out = "pin_ok")
    /\ fpSince' = IF r.unlocked > 0 THEN FALSE
                  ELSE (fpSince \/ r.out \in {"fp_ok", "fp_id0"})
    /\ pinFresh' = IF r.out \in PinVerdicts THEN FALSE
                   ELSE (pinFresh \/ (is_pin_locked_out /\ ~r.is_pin_locked_out))
    /\ fpFresh' = IF r.out \in FpVerdicts THEN FALSE
                  ELSE (fpFresh \/ (is_fp_locked_out /\ ~r.is_fp_locked_out))
    /\ consecPin' = Consec(consecPin, r.out, PinFailures, PinVerdicts)
    /\ consecFp' = Consec(consecFp, r.out, FpFailures, FpVerdicts)

\* a step with no handler in it; pv, fv and mode are the verification flags and
\* the authentication mode before it
IdleOutcome(kind, pv, fv, mode) ==
    [kind |-> kind, unlocked |-> 0, pulses |-> 0, sensed |-> FALSE,
     shown |-> FALSE, buzzed |-> FALSE, remaining |-> -1, offer |-> "none",
     prePin |-> pv, preFp |-> fv, preMode |-> mode, inWindow |-> FALSE,
     first |-> FALSE, fifth |-> FALSE, hadPin |-> FALSE, hadFp |-> FALSE,
     cut |-> FALSE]

\* the handler returns leaving the globals as in r
Return(r) ==
    /\ eeprom' = r.eeprom
    /\ templates' = r.templates
    /\ input_password' = r.input_password
    /\ star_count' = r.star_count
    /\ hash_count' = r.hash_count
    /\ pin_verified' = r.pin_verified
    /\ fingerprint_verified' = r.fingerprint_verified
    /\ verified_fingerprint_id' = r.verified_fingerprint_id
    /\ wrong_pin_attempts' = r.wrong_pin_attempts
    /\ wrong_fp_attempts' = r.wrong_fp_attempts
    /\ pin_lockout_start' = r.pin_lockout_start
    /\ fp_lockout_start' = r.fp_lockout_start
    /\ is_pin_locked_out' = r.is_pin_locked_out
    /\ is_fp_locked_out' = r.is_fp_locked_out
    /\ relay' = r.relay
    /\ last_activity' = r.last_activity
    /\ UNCHANGED <<shared, fails, enroll>>

\* power-on with EEPROM contents e and sensor templates t
Boot(e, t) ==
    \E r \in {setup(PowerOn(e, t))} :
    /\ eeprom = r.eeprom
    /\ templates = r.templates
    /\ input_password = r.input_password
    /\ star_count = r.star_count
    /\ hash_count = r.hash_count
    /\ pin_verified = r.pin_verified
    /\ fingerprint_verified = r.fingerprint_verified
    /\ verified_fingerprint_id = r.verified_fingerprint_id
    /\ wrong_pin_attempts = r.wrong_pin_attempts
    /\ wrong_fp_attempts = r.wrong_fp_attempts
    /\ pin_lockout_start = r.pin_lockout_start
    /\ fp_lockout_start = r.fp_lockout_start
    /\ is_pin_locked_out = r.is_pin_locked_out
    /\ is_fp_locked_out = r.is_fp_locked_out
    /\ relay = r.relay
    /\ last_activity = r.last_activity
    /\ shared = SharedPowerOn
    /\ fails = 0
    /\ enroll = EnrollIdle
    /\ now = 0
    /\ last = IdleOutcome("boot", FALSE, FALSE, getAuthMode(e))
    /\ pinSince = FALSE
    /\ fpSince = FALSE
    /\ pinFresh = FALSE
    /\ fpFresh = FALSE
    /\ consecPin = 0
    /\ consecFp = 0

\* first power-on: blank EEPROM, a sensor with no template or with one
Init == \E t \in {{}, {1}} : Boot(BlankEeprom, t)

\* power-on of a device in service: one template enrolled, the default PIN, the
\* authentication mode byte as first written or as left by a toggle
InitAuth ==
    \E m \in {EEPROM_BLANK, SINGLE_FACTOR, TWO_FACTOR} :
        Boot([setPassword(BlankEeprom, DEFAULT_PIN) EXCEPT ![AUTH_MODE_ADDR] = m], {1})

------
(* Actions                                                                 *)

NoInput == [cur |-> <<>>, new |-> <<>>, choice |-> KEY_STAR, id |-> <<>>, ok |-> FALSE]

\* what a user may type at a "current PIN" prompt
CurPins ==
    {getPassword(eeprom),
     IF getPassword(eeprom) = WRONG_PIN THEN DEFAULT_PIN ELSE WRONG_PIN}

\* handleKeypad() called for k presses of the same key in a row, none of them
\* reaching a prompt
RECURSIVE PressRun(_, _, _, _)
PressRun(s, key, k, t) ==
    IF k <= 0 THEN s
    ELSE PressRun(handleKeypad([s EXCEPT !.out = "none"], key, NoInput, t),
                  key, k - 1, t)

\* does this key submit exactly the stored credential
KeyOffer(key) ==
    LET typed == IF key = KEY_HASH THEN input_password
                 ELSE Append(input_password, key)
    IN  IF /\ key # KEY_STAR
           /\ key = KEY_HASH \/ Len(typed) = PIN_LENGTH
           /\ typed # <<>>
           /\ typed = getPassword(eeprom)
        THEN "pin" ELSE "none"

\* loop() -> handleKeypad() with a key pressed, outside the admin flows
KeyPress ==
    \E key \in Keys :
        /\ key \in DigitKeys =>
              \E p \in TypedPins : IsPrefix(Append(input_password, key), p)
        /\ key = KEY_STAR => star_count < GestureLoose
        /\ key = KEY_HASH => hash_count < GestureLoose
        /\ \E r \in {handleKeypad(Globals, key, NoInput, now)} :
              Return(r) /\ History(r, "key", "none", KeyOffer(key))
        /\ UNCHANGED now

\* handleKeypad() called for each key of keys in turn
RECURSIVE TypeRun(_, _, _)
TypeRun(s, keys, t) ==
    IF keys = <<>> THEN s
    ELSE TypeRun(handleKeypad([s EXCEPT !.out = "none"], Head(keys), NoInput, t),
                 Tail(keys), t)

\* a PIN attempt typed in one go on an empty buffer: PIN_LENGTH digits, or
\* fewer and '#'
Submit ==
    /\ input_password = <<>>
    /\ \E p \in TypedPins \cup {getPassword(eeprom)} :
          /\ p # <<>>
          /\ \E r \in {TypeRun(Globals,
                                 IF Len(p) < PIN_LENGTH THEN Append(p, KEY_HASH) ELSE p,
                                 now)} :
                Return(r) /\ History(r, "key", "none",
                                     IF p = getPassword(eeprom) THEN "pin" ELSE "none")
    /\ UNCHANGED now

\* was the stored credential entered at the current-PIN prompt
AdminOffer(inp) == IF inp.cur = getPassword(eeprom) THEN "admin" ELSE "none"

\* what is typed at the prompts of changePassword(), were they all to appear
StarInputs ==
    {[NoInput EXCEPT !.cur = c, !.new = SHORT_PIN] : c \in CurPins \ {getPassword(eeprom)}}
        \cup {[NoInput EXCEPT !.cur = getPassword(eeprom), !.new = n] : n \in NewPins}

\* what is typed at the PIN prompt and in the admin menu, were they to appear,
\* and the sensor's answer
HashInputsOf(ids) ==
    {[NoInput EXCEPT !.cur = c, !.choice = DigitChar(3)] :
        c \in CurPins \ {getPassword(eeprom)}}
        \cup {[NoInput EXCEPT !.cur = getPassword(eeprom), !.choice = c] :
                 c \in {DigitChar(3), KEY_STAR}}
        \cup {[cur |-> getPassword(eeprom), new |-> <<>>, choice |-> c,
               id |-> i, ok |-> o] :
                 c \in {DigitChar(1), DigitChar(2)}, i \in ids, o \in BOOLEAN}

HashInputs == HashInputsOf(TypedIds)

\* '*' pressed until star_count reaches STAR_THRESHOLD: changePassword()
StarGesture ==
    /\ ~PinWindowRunning(Globals, now)
    /\ \E s \in {PressRun(Globals, KEY_STAR, STAR_THRESHOLD - star_count - 1, now)} :
       \E inp \in StarInputs :
       \E r \in {handleKeypad([s EXCEPT !.out = "none"], KEY_STAR, inp, now)} :
          Return(r) /\ History(r, "key", "none", AdminOffer(inp))
    /\ UNCHANGED now

\* '#' pressed on an empty buffer until hash_count reaches 12: PIN prompt, admin
\* menu, with the identities of ids typed at "Enter ID:"
HashGestureWith(ids) ==
    /\ ~PinWindowRunning(Globals, now)
    /\ input_password = <<>>
    /\ \E s \in {PressRun(Globals, KEY_HASH, HASH_THRESHOLD - hash_count - 1, now)} :
       \E inp \in HashInputsOf(ids) :
       \E r \in {handleKeypad([s EXCEPT !.out = "none"], KEY_HASH, inp, now)} :
          Return(r) /\ History(r, "key", "none", AdminOffer(inp))
    /\ UNCHANGED now

HashGesture == HashGestureWith(TypedIds)

\* loop() -> handleFingerprint(), the finger (if any) of an enrolled user
EnrolledPoll ==
    \E f \in EnrolledPolls(templates) :
        /\ \E r \in {handleFingerprint(Globals, f, now)} :
              Return(r) /\ History(r, "fp", "poll",
                                   IF f.r = "match" THEN "match" ELSE "none")
        /\ UNCHANGED now

\* loop() -> handleFingerprint() with the sensor answering f
FingerPoll ==
    \E f \in FpPolls(templates) :
        /\ \E r \in {handleFingerprint(Globals, f, now)} :
              Return(r) /\ History(r, "fp", "poll",
                                   IF f.r = "match" THEN "match" ELSE "none")
        /\ UNCHANGED now

\* time passes while the device is kept awake: the inactivity timer is
\* restarted before handleInactivity() finds it expired
Tick ==
    /\ now + TickMs <= MaxTicks * TickMs
    /\ now' = now + TickMs
    /\ last_activity' = now'
    /\ last' = IdleOutcome("none", pin_verified, fingerprint_verified,
                           getAuthMode(eeprom))
    /\ UNCHANGED <<progVars, pinSince, fpSince, pinFresh, fpFresh, consecPin, consecFp,
                   shared, fails, enroll>>

\* power cycle or wake from deep sleep: the globals are re-initialised, setup() runs
Reboot ==
    /\ \E r \in {setup(PowerOn(eeprom, templates))} : Return(r)
    /\ now' = 0
    /\ last' = [IdleOutcome("boot", FALSE, FALSE, getAuthMode(eeprom))
                   EXCEPT !.cut = PinWindowRunning(Globals, now)
                                     \/ FpWindowRunning(Globals, now)]
    /\ pinSince' = FALSE /\ fpSince' = FALSE
    /\ pinFresh' = FALSE /\ fpFresh' = FALSE
    /\ consecPin' = 0 /\ consecFp' = 0

\* the locker with its admin flows, used by enrolled users
Next == Submit \/ StarGesture \/ HashGesture \/ EnrolledPoll \/ Tick \/ Reboot

Spec == Init /\ [][Next]_vars

\* the verification flags, failure counters, lockout flags and lockout stamps
AuthState ==
    <<pin_verified, fingerprint_verified, wrong_pin_attempts, wrong_fp_attempts,
      is_pin_locked_out, is_fp_locked_out, pin_lockout_start, fp_lockout_start>>

\* the sensor answers that no finger is on it
NoFinger == [r |-> "nofinger", id |-> 0]

\* IdleMs of loop() passes with no key and no finger: handleKeypad() returns at
\* once, handleFingerprint() polls the sensor, handleInactivity() runs; when it
\* starts deep sleep the next key wakes the device and setup() runs
IdlePass ==
    /\ now + IdleMs <= MaxTicks * TickMs
    /\ \E t \in {now + IdleMs} :
       \E r \in {handleInactivity(handleFingerprint(Globals, NoFinger, t), t)} :
          IF r.out = "sleep"
          THEN /\ \E w \in {setup(PowerOn(r.eeprom, r.templates))} : Return(w)
               /\ now' = 0
               /\ last' = IdleOutcome("sleep", pin_verified, fingerprint_verified,
                                      getAuthMode(eeprom))
               /\ pinSince' = FALSE /\ fpSince' = FALSE
               /\ pinFresh' = FALSE /\ fpFresh' = FALSE
               /\ consecPin' = 0 /\ consecFp' = 0
          ELSE /\ Return(r)
               /\ now' = t
               /\ History(r, "fp", "idle", "none")

\* the admin menu used with any identity
WideHashGesture == HashGestureWith(WideIds)

\* the admin menu and the sensor in use
NextAdmin == WideHashGesture \/ FingerPoll

AdminSpec == Init /\ [][NextAdmin]_vars

\* the locker used and left alone in turn
NextIdle == Submit \/ FingerPoll \/ IdlePass

IdleSpec == InitAuth /\ [][NextIdle]_vars

----------------------------------------------------------------------------
(* The shared-counter firmwares running                                    *)

\* failed attempts in a row after the events of log, n before them: a failed
\* comparison or search adds one (up to MaxFails), a success or the end of a
\* lockout restarts
RECURSIVE FailsAfter(_, _)
FailsAfter(n, log) ==
    IF log = <<>> THEN n
    ELSE FailsAfter(CASE Head(log) \in {"pin_fail", "search_fail"} ->
                              IF n < MaxFails THEN n + 1 ELSE n
                      [] Head(log) \in {"pin_ok", "search_ok", "expire"} -> 0
                      [] OTHER -> n,
                    Tail(log))

\* power-on of a shared-counter firmware
InitShared == Boot(BlankEeprom, {})

\* one pass of LOCKER_V3.cpp loop()
V3Pass ==
    /\ \E f \in FpPolls({1}), key \in SharedKeys \cup {NoKey} :
       \E r \in {V3_loop([shared EXCEPT !.log = <<>>], f, key, now)} :
          /\ shared' = r
          /\ fails' = FailsAfter(fails, r.log)
    /\ UNCHANGED <<progVars, last_activity, now, histVars, enroll>>

\* one pass of code.ino loop()
InoPass ==
    /\ \E f \in FpPolls({1}), key \in SharedKeys \cup {NoKey} :
       \E r \in {Ino_loop([shared EXCEPT !.log = <<>>], f, key, now)} :
          /\ shared' = r
          /\ fails' = FailsAfter(fails, r.log)
    /\ UNCHANGED <<progVars, last_activity, now, histVars, enroll>>

\* time passes between two passes of loop()
SharedTick ==
    /\ now + TickMs <= MaxTicks * TickMs
    /\ now' = now + TickMs
    /\ shared' = [shared EXCEPT !.log = <<>>]
    /\ UNCHANGED <<progVars, last_activity, histVars, fails, enroll>>

NextV3 == V3Pass \/ SharedTick

V3Spec == InitShared /\ [][NextV3]_vars

NextIno == InoPass \/ SharedTick

InoSpec == InitShared /\ [][NextIno]_vars

\* the locker in service, used by anyone, the admin gestures left alone
NextAuth == KeyPress \/ FingerPoll \/ Tick \/ Reboot

AuthSpec == InitAuth /\ [][NextAuth]_vars

----------------------------------------------------------------------------
(* Properties                                                              *)

Mode == getAuthMode(eeprom)

PinLockout == <<wrong_pin_attempts, is_pin_locked_out, pin_lockout_start>>
FpLockout == <<wrong_fp_attempts, is_fp_locked_out, fp_lockout_start>>
FlagsClear == ~pin_verified /\ ~fingerprint_verified

\* C1: in TWO_FACTOR mode the door is unlocked only if both a correct PIN
\* submission and a fingerprint match have occurred since the most recent
\* unlock or boot, whatever mode toggles and single-factor grants came between.
C1_GrantNeedsBothFactors ==
    (last.unlocked > 0 /\ Mode = TWO_FACTOR) => (last.hadPin /\ last.hadFp)

\* C2: the fifth failed verification in a row of a modality sets its lockout
\* flag and stamps its lockout start with the current time; a handler entered
\* while its modality's window is running gives no verdict, sets no
\* verification flag and grants nothing.
C2_FifthFailureLocksOut ==
    /\ (last.fifth /\ last.kind \in PinFailures) =>
          /\ last.kind = "pin_now_locked"
          /\ is_pin_locked_out /\ pin_lockout_start = now
    /\ (last.fifth /\ last.kind \in FpFailures) =>
          /\ last.kind = "fp_now_locked"
          /\ is_fp_locked_out /\ fp_lockout_start = now
    /\ last.inWindow =>
          /\ last.kind \in {"pin_locked", "fp_locked", "poll"}
          /\ last.unlocked = 0
          /\ pin_verified = last.prePin
          /\ fingerprint_verified = last.preFp

\* a key was rejected inside the window opened by five failures
C2_Witness ==
    /\ last.kind = "pin_locked" /\ last.inWindow
    /\ is_pin_locked_out /\ wrong_pin_attempts = MAX_WRONG_ATTEMPTS

\* C3: in TWO_FACTOR mode a first success of one modality sets its flag and
\* grants nothing, a repeated correct PIN grants nothing, the success of the
\* other modality then grants exactly once and clears both flags, and no other
\* step within a session touches the flags.
C3_SecondFactorGrantsOnce ==
    /\ (Mode = TWO_FACTOR /\ last.kind = "pin_ok") =>
          IF last.preFp
          THEN last.unlocked = 1 /\ FlagsClear
          ELSE last.unlocked = 0 /\ pin_verified /\ ~fingerprint_verified
    /\ (Mode = TWO_FACTOR /\ last.kind = "fp_ok") =>
          IF last.prePin
          THEN last.unlocked = 1 /\ FlagsClear
          ELSE last.unlocked = 0 /\ fingerprint_verified /\ ~pin_verified
    /\ last.kind \notin {"pin_ok", "fp_ok"} =>
          /\ pin_verified = last.prePin
          /\ fingerprint_verified = last.preFp
          /\ last.unlocked = 0

\* a match after a correct PIN, from clear flags and no lockout: one pulse
C3_Witness ==
    /\ Mode = TWO_FACTOR /\ last.kind = "fp_ok"
    /\ last.prePin /\ ~last.preFp /\ last.unlocked = 1
    /\ ~is_pin_locked_out /\ ~is_fp_locked_out

\* C4: a fingerprint match offered while the PIN modality is locked out (and
\* the fingerprint modality is not inside its own window) is accepted: it
\* unlocks in SINGLE_FACTOR, and in TWO_FACTOR sets fingerprint_verified or
\* completes the grant of an earlier verified PIN; symmetrically for the stored
\* PIN submitted while the fingerprint modality is locked out.
C4_LockoutsAreIndependent ==
    /\ (last.offer = "match" /\ is_pin_locked_out /\ ~last.inWindow) =>
          /\ last.kind = "fp_ok"
          /\ Mode # TWO_FACTOR => last.unlocked = 1
          /\ Mode = TWO_FACTOR =>
                IF last.prePin THEN last.unlocked = 1 /\ FlagsClear
                ELSE last.unlocked = 0 /\ fingerprint_verified
    /\ (last.offer = "pin" /\ is_fp_locked_out /\ ~last.inWindow) =>
          /\ last.kind = "pin_ok"
          /\ Mode # TWO_FACTOR => last.unlocked = 1
          /\ Mode = TWO_FACTOR =>
                IF last.preFp THEN last.unlocked = 1 /\ FlagsClear
                ELSE last.unlocked = 0 /\ pin_verified

\* a match unlocked the door in SINGLE_FACTOR while the PIN window was running
C4_Witness ==
    /\ last.offer = "match" /\ last.kind = "fp_ok" /\ last.unlocked = 1
    /\ Mode # TWO_FACTOR
    /\ PinWindowRunning(Globals, now)

\* C5: a PIN submission (verified, failed or rejected) leaves the fingerprint
\* lockout variables as they were, and a fingerprint poll (no finger, sensor
\* error, no match, match or rejection) leaves the PIN lockout variables as
\* they were.
C5_SubmissionsKeepOtherLockout ==
    [][/\ last'.kind \in PinVerdicts \cup {"pin_locked"} => UNCHANGED FpLockout
       /\ last'.kind \in FpVerdicts \cup {"fp_locked", "poll"} => UNCHANGED PinLockout
      ]_vars

\* a match was accepted while failed PIN attempts were counted
C5_Witness ==
    /\ last.kind = "fp_ok"
    /\ wrong_pin_attempts = 3 /\ wrong_fp_attempts = 0

\* C6: once changePassword has stored a new PIN, a submission of that PIN is
\* verified as correct, and a submission of the PIN it replaced is a failure.
C6_ChangedPinIsAccepted ==
    (getPassword(eeprom) # DEFAULT_PIN /\ ~last.inWindow) =>
        /\ last.offer = "pin" => last.kind = "pin_ok"
        /\ (last.kind \in PinVerdicts /\ last.offer # "pin") => last.kind \in PinFailures

\* C7: a submission that checkPassword evaluates is verified exactly when it
\* is the stored credential, same length and same bytes, and fails otherwise.
C7_CorrectIffStoredCredential ==
    last.kind \in PinVerdicts =>
        /\ last.kind = "pin_ok" <=> last.offer = "pin"
        /\ last.kind \in PinFailures <=> last.offer # "pin"

\* C8: nothing is rejected once the window has elapsed, and the first verdict
\* of a modality after its lockout expired finds the flag cleared and the
\* counter at zero: a failure is failure one of five, a success leaves the
\* counter at zero and unlocks in SINGLE_FACTOR.
C8_ExpiryClearsThenEvaluates ==
    /\ last.kind \in {"pin_locked", "fp_locked"} => last.inWindow
    /\ (last.first /\ last.kind \in PinVerdicts) =>
          /\ ~is_pin_locked_out
          /\ last.kind \in PinFailures => wrong_pin_attempts = 1
          /\ last.kind = "pin_ok" => wrong_pin_attempts = 0
          /\ (last.kind = "pin_ok" /\ Mode # TWO_FACTOR) => last.unlocked = 1
    /\ (last.first /\ last.kind \in FpVerdicts) =>
          /\ ~is_fp_locked_out
          /\ last.kind \in FpFailures => wrong_fp_attempts = 1
          /\ last.kind = "fp_ok" => wrong_fp_attempts = 0
          /\ (last.kind = "fp_ok" /\ Mode # TWO_FACTOR) => last.unlocked = 1

\* the first PIN after the lockout expired was correct and unlocked the door
C8_Witness ==
    /\ last.first /\ last.kind = "pin_ok" /\ last.unlocked = 1
    /\ Mode # TWO_FACTOR
    /\ now >= pin_lockout_start + LOCKOUT_TIME

\* C9: a key press or finger placement rejected inside the lockout window
\* leaves the modality's failure counter, flag and start time unchanged, and so
\* does a poll with no finger inside the window.
C9_RejectionsChangeNothing ==
    [][/\ last'.kind = "pin_locked" => UNCHANGED PinLockout
       /\ last'.kind = "fp_locked" => UNCHANGED FpLockout
       /\ (last'.kind = "poll" /\ last'.inWindow) => UNCHANGED FpLockout
      ]_vars

\* a finger was rejected inside the fingerprint window
C9_Witness ==
    /\ last.kind = "fp_locked" /\ last.inWindow
    /\ is_fp_locked_out /\ wrong_fp_attempts = MAX_WRONG_ATTEMPTS

\* C10: right after a successful verification of a modality, a TWO_FACTOR
\* partial success included, that modality's failure counter is 0.
C10_SuccessResetsCounter ==
    /\ last.kind = "pin_ok" => wrong_pin_attempts = 0
    /\ last.kind = "fp_ok" => wrong_fp_attempts = 0
\* C11: right after the admin menu's auth-mode toggle both pin_verified and
\* fingerprint_verified are false, whatever they were before.
C11_ToggleClearsFlags ==
    last.kind = "mode_toggled" => FlagsClear

\* the toggle applied twice to the EEPROM with mode byte b
ToggledOnce(b) ==
    toggleAuthMode([Globals EXCEPT !.eeprom[AUTH_MODE_ADDR] = b]).eeprom
ToggledTwice(b) ==
    toggleAuthMode([Globals EXCEPT !.eeprom = ToggledOnce(b)]).eeprom

\* C12: the toggle flips getAuthMode() between SINGLE_FACTOR and TWO_FACTOR
\* whatever mode byte is stored (0xFF reads as SINGLE_FACTOR), the new mode is
\* the byte in the EEPROM and is what getAuthMode() returns after a reboot, and
\* a second toggle restores the original mode.
C12_ToggleFlipsAndPersists ==
    /\ last.kind = "mode_toggled" =>
          /\ Mode # last.preMode
          /\ eeprom[AUTH_MODE_ADDR] = Mode
          /\ \A b \in 0..(UINT8_MOD - 1) :
                LET m == getAuthMode([eeprom EXCEPT ![AUTH_MODE_ADDR] = b]) IN
                /\ getAuthMode(ToggledOnce(b)) \in {SINGLE_FACTOR, TWO_FACTOR} \ {m}
                /\ getAuthMode(ToggledTwice(b)) = m
    /\ last.kind = "boot" => Mode = last.preMode

\* the device rebooted into the TWO_FACTOR mode a toggle had stored
C12_Witness ==
    last.kind = "boot" /\ Mode = TWO_FACTOR /\ last.preMode = TWO_FACTOR
\* C13: the stored PIN, the stored auth mode and the set of templates change
\* only in an admin flow at whose prompt the current stored PIN was entered.
C13_ChangesNeedCurrentPin ==
    [][(eeprom' # eeprom \/ templates' # templates) => last'.offer = "admin"]_vars

\* a new PIN was stored after the current one was entered
C13_Witness ==
    last.kind = "pin_changed" /\ last.offer = "admin" /\ getPassword(eeprom) = SHORT_PIN
\* C14: a processed '#' press (the only step that counts hash_count up) leaves
\* star_count at zero, and a processed '*' press (the only step that counts
\* star_count up) leaves hash_count at zero.
C14_OtherKeyResetsGesture ==
    [][/\ hash_count' = hash_count + 1 => star_count' = 0
       /\ star_count' = star_count + 1 => hash_count' = 0
      ]_vars
ChangeKinds == {"change_denied", "pin_changed", "change_invalid"}
MenuKinds == {"admin_denied", "admin_exit", "mode_toggled", "enrolled",
              "enroll_invalid", "enroll_failed", "deleted", "delete_failed"}

\* the lockout variables of both modalities in the program state s
LockoutOf(s) ==
    <<s.wrong_pin_attempts, s.wrong_fp_attempts, s.is_pin_locked_out,
      s.is_fp_locked_out, s.pin_lockout_start, s.fp_lockout_start>>

\* C15: changePassword and the admin menu's PIN re-entry leave the failure
\* counters, lockout flags and lockout start times of both modalities as they
\* found them, whether the current PIN entered is right or wrong: as functions
\* of any reachable state and any entry, and in every step that runs one of
\* them with no expired PIN lockout left to lift by the key press itself.
C15_AdminFlowsKeepLockout ==
    /\ [](/\ \A inp \in StarInputs :
               LockoutOf(changePassword(Globals, inp)) = LockoutOf(Globals)
          /\ \A inp \in HashInputs :
               LockoutOf(adminMenu(Globals, inp)) = LockoutOf(Globals))
    /\ [][(last'.kind \in ChangeKinds \cup MenuKinds /\ ~is_pin_locked_out) =>
             UNCHANGED <<PinLockout, FpLockout>>]_vars

\* a wrong current PIN was entered with four failed attempts counted: no lockout
C15_Witness ==
    /\ last.kind \in {"change_denied", "admin_denied"}
    /\ wrong_pin_attempts = MAX_WRONG_ATTEMPTS - 1 /\ ~is_pin_locked_out
\* C16: changePassword leaves every EEPROM byte as it was when the current
\* PIN entered differs from the stored one or the new PIN is empty or longer
\* than PIN_LENGTH; otherwise the stored credential is exactly the new PIN (and
\* the bytes above it are as they were).
C16_ChangeStoresNewOrNothing ==
    /\ [](\A inp \in StarInputs :
            LET r == changePassword(Globals, inp) IN
            IF \/ inp.cur # getPassword(eeprom)
               \/ inp.new = <<>>
               \/ Len(inp.new) > PIN_LENGTH
            THEN r.eeprom = eeprom /\ r.out \in {"change_denied", "change_invalid"}
            ELSE /\ getPassword(r.eeprom) = inp.new
                 /\ \A a \in PIN_LENGTH..AUTH_MODE_ADDR : r.eeprom[a] = eeprom[a]
                 /\ r.out = "pin_changed")
    /\ [][last'.kind \in {"change_denied", "change_invalid"} => eeprom' = eeprom]_vars

\* a new PIN of three digits is stored, and a later invalid attempt left it
C16_Witness ==
    last.kind = "change_invalid" /\ getPassword(eeprom) = SHORT_PIN
\* the step decided a grant: a success in SINGLE_FACTOR, or in TWO_FACTOR the
\* success of one modality with the other one's flag set
GrantDecision ==
    \/ last.kind = "pin_ok" /\ (last.preMode # TWO_FACTOR \/ last.preFp)
    \/ last.kind = "fp_ok" /\ (last.preMode # TWO_FACTOR \/ last.prePin)

\* C17: the relay is at the locked level whenever a handler has returned to
\* the loop; a step drives it to the unlocked level exactly once, inside one
\* unlockDoor call, when it decides a grant, and never otherwise.
C17_RelayPulsesOnlyOnGrant ==
    /\ relay = HIGH
    /\ last.pulses = last.unlocked
    /\ last.unlocked = IF GrantDecision THEN 1 ELSE 0

\* a TWO_FACTOR grant pulsed the relay once and left it locked
C17_Witness ==
    /\ GrantDecision /\ last.preMode = TWO_FACTOR
    /\ last.pulses = 1 /\ relay = HIGH
\* C18: in TWO_FACTOR mode a failed verification, the one that triggers the
\* lockout included, leaves both verification flags as they were, grants
\* nothing, counts one failure on its own modality and none on the other; the
\* success of the missing modality, right after a failure or later, grants and
\* clears both flags.
C18_FailureKeepsPartialVerification ==
    /\ [](Mode = TWO_FACTOR =>
            /\ last.kind \in PinFailures \cup FpFailures =>
                  /\ pin_verified = last.prePin
                  /\ fingerprint_verified = last.preFp
                  /\ last.unlocked = 0
            /\ (last.kind = "fp_ok" /\ last.prePin) =>
                  last.unlocked = 1 /\ FlagsClear
            /\ (last.kind = "pin_ok" /\ last.preFp) =>
                  last.unlocked = 1 /\ FlagsClear)
    /\ [][/\ last'.kind \in PinFailures =>
                /\ wrong_pin_attempts' = wrong_pin_attempts + 1
                /\ wrong_fp_attempts' = wrong_fp_attempts
          /\ last'.kind \in FpFailures =>
                /\ wrong_fp_attempts' =
                      (IF is_fp_locked_out THEN 0 ELSE wrong_fp_attempts) + 1
                /\ wrong_pin_attempts' = wrong_pin_attempts
          /\ (/\ Mode = TWO_FACTOR /\ last.kind \in FpFailures /\ pin_verified
              /\ last'.offer = "match" /\ ~last'.inWindow) =>
                last'.unlocked = 1 /\ FlagsClear'
         ]_vars

\* the failure that locked the fingerprint modality left the verified PIN set
C18_Witness ==
    /\ Mode = TWO_FACTOR /\ last.kind = "fp_now_locked"
    /\ last.prePin /\ pin_verified /\ wrong_fp_attempts = MAX_WRONG_ATTEMPTS
\* C19: enrollFingerprint with an identity that reads as 0 (the empty entry
\* included) ends with the error message and makes no sensor call, whatever
\* the state and whatever the sensor would have answered.
C19_EnrollZeroAborts ==
    /\ \A inp \in HashInputs :
          getIDFromInput(inp) = 0 =>
             LET r == enrollFingerprint(Globals, inp) IN
             r = [Globals EXCEPT !.out = "enroll_invalid", !.shown = TRUE]
    /\ last.kind = "enroll_invalid" => ~last.sensed
    /\ last.kind \in {"enrolled", "enroll_failed"} => last.sensed

\* an enrollment was refused for its identity
C19_Witness ==
    last.kind = "enroll_invalid" /\ ~last.sensed /\ last.offer = "admin"
\* the outcomes of a PIN or fingerprint submission: grant or partial
\* verification, denied with retries left, denied and now locked, rejected
\* because locked out
DecisionKinds ==
    {"pin_ok", "fp_ok", "pin_fail", "fp_fail", "pin_now_locked", "fp_now_locked",
     "pin_locked", "fp_locked"}

\* a wrong PIN at the current-PIN prompt of changePassword() or the admin menu
ReentryFailedKinds == {"change_denied", "admin_denied"}

IdleKinds == {"lit", "dimmed", "sleep"}

\* C21: an idle period, however long, leaves the verification flags, both
\* failure counters, both lockout flags and both lockout stamps as they were
\* when it began.
C21_IdleKeepsAuthState ==
    [][last'.kind \in IdleKinds => AuthState' = AuthState]_vars
\* C22: a reboot leaves both failure counters at 0 and both lockout flags and
\* both verification flags false, a running lockout window included, and
\* leaves the stored PIN and the stored authentication mode as they were.
C22_RebootForgetsLockoutKeepsStore ==
    [][last'.kind = "boot" =>
          /\ wrong_pin_attempts' = 0 /\ wrong_fp_attempts' = 0
          /\ ~is_pin_locked_out' /\ ~is_fp_locked_out'
          /\ ~pin_verified' /\ ~fingerprint_verified'
          /\ eeprom' = eeprom]_vars

\* a reboot during a lockout window, of a device whose PIN was changed and
\* whose mode was toggled
C22_Witness ==
    /\ last.kind = "boot" /\ last.cut
    /\ getPassword(eeprom) # DEFAULT_PIN
    /\ last.preMode = TWO_FACTOR /\ getAuthMode(eeprom) = TWO_FACTOR
\* what a pass of loop() does with the keypad, the sensor and the relay
Acting == {"key", "pin_ok", "pin_fail", "search_ok", "search_fail", "unlock"}

\* C23: in LOCKER_V3.cpp, from the moment lockout_mode is set until
\* handleLockoutMode clears it, no key is processed, no PIN is checked, no
\* fingerprint is evaluated and the relay is not driven to unlocked.
C23_LockoutStopsEverything ==
    [][\A i \in 1..Len(shared'.log) :
          shared'.log[i] \in Acting =>
             /\ ~shared.lockout_mode
             /\ \A j \in 1..(i - 1) : shared'.log[j] # "lock"]_vars

\* C24: in code.ino every failed attempt, wrong PIN or unrecognised
\* fingerprint, increments wrong_attempts, and five failed attempts in a row
\* of either kind put the system in lockout mode.
C24_EveryFailureCounts ==
    /\ shared.wrong_attempts = fails
    /\ fails >= MAX_WRONG_ATTEMPTS => shared.lockout_mode
\* C25: the input buffer never holds more than PIN_LENGTH digits, and it is
\* empty after every '*' press that is processed (the press completing the
\* change-PIN gesture included), after every '#' submit and after every
\* checkPassword call that reached a verdict.
C25_BufferBoundedAndCleared ==
    /\ input_length <= PIN_LENGTH
    /\ last.kind \in PinVerdicts => input_length = 0
    /\ star_count > 0 => input_length = 0
    /\ ~PinWindowRunning(Globals, now) =>
          /\ \A key \in Keys :
                LET r == handleKeypad(Globals, key, NoInput, now) IN
                /\ Len(r.input_password) <= PIN_LENGTH
                /\ key \in {KEY_STAR, KEY_HASH} => r.input_password = <<>>
                /\ r.out \in PinVerdicts => r.input_password = <<>>
          /\ \A inp \in StarInputs :
                LET s == PressRun(Globals, KEY_STAR,
                                  STAR_THRESHOLD - star_count - 1, now)
                IN  handleKeypad(s, KEY_STAR, inp, now).input_password = <<>>

\* a PIN_LENGTH-digit attempt was checked and the buffer is empty again
C25_Witness ==
    /\ last.kind = "pin_fail" /\ last.offer = "none"
    /\ input_length = 0 /\ wrong_pin_attempts = 2
\* C26: the failed verification that brings a modality's failure counter to
\* MAX_WRONG_ATTEMPTS sets the modality's lockout flag, stamps its lockout
\* start and resets the counter, which reads 0 while the modality is locked.
C26_LockoutResetsCounter ==
    /\ last.kind = "pin_now_locked" =>
          is_pin_locked_out /\ pin_lockout_start = now /\ wrong_pin_attempts = 0
    /\ last.kind = "fp_now_locked" =>
          is_fp_locked_out /\ fp_lockout_start = now /\ wrong_fp_attempts = 0
    /\ is_pin_locked_out => wrong_pin_attempts = 0
    /\ is_fp_locked_out => wrong_fp_attempts = 0
\* the lockout tracker of each modality: failure counter and lockout flag
PinTracker(s) == <<s.wrong_pin_attempts, s.is_pin_locked_out>>
FpTracker(s) == <<s.wrong_fp_attempts, s.is_fp_locked_out>>

\* both trackers in the same state, both verification flags alike, no digits
\* pending
Symmetric ==
    /\ PinTracker(Globals) = FpTracker(Globals)
    /\ pin_lockout_start = fp_lockout_start
    /\ pin_verified = fingerprint_verified
    /\ input_password = <<>>

\* C27: the PIN lockout tracker and the fingerprint lockout tracker are the
\* same state machine: from trackers in the same state, the same outcome
\* (failed verification, successful verification, rejected attempt during
\* lockout, each at the same time) leaves (wrong_pin_attempts,
\* is_pin_locked_out) equal to (wrong_fp_attempts, is_fp_locked_out).
C27_TrackersAreTheSameMachine ==
    Symmetric =>
       \A f \in FpPolls(templates) :
          /\ f.r = "match" =>
                PinTracker(TypeRun(Globals, getPassword(eeprom), now))
                   = FpTracker(handleFingerprint(Globals, f, now))
          /\ f.r = "nomatch" =>
                PinTracker(TypeRun(Globals, WRONG_PIN, now))
                   = FpTracker(handleFingerprint(Globals, f, now))
\* C28: whatever number is typed at the enrollment prompt, no template is
\* stored under identity 0: the identity that reaches storeModel through the
\* 8-bit parameter of getFingerprintEnroll is never 0.
C28_NeverEnrollsIdentityZero ==
    [][last'.kind = "enrolled" => (0 \in templates' => 0 \in templates)]_vars
\* C29: the change-credential operation does not consult the lockout state:
\* the '*' gesture completed with the correct current PIN and a valid new
\* PIN changes the stored credential, during a running PIN lockout as at any
\* other time.
C29_ChangeIgnoresLockout ==
    \A inp \in StarInputs :
       (inp.cur = getPassword(eeprom) /\ Len(inp.new) \in 1..PIN_LENGTH) =>
          LET s == PressRun(Globals, KEY_STAR, STAR_THRESHOLD - star_count - 1, now)
              r == handleKeypad([s EXCEPT !.out = "none"], KEY_STAR, inp, now)
          IN  getPassword(r.eeprom) = inp.new
\* loop(), lines 865-866: one iteration with a key pressed and the sensor
\* answering f; handleKeypad() returns before handleFingerprint() is called
loopPass(s, key, f, t) ==
    handleFingerprint(handleKeypad(s, key, NoInput, t), f, t)

\* the two events in two iterations, the finger in the earlier one
fingerThenKey(s, key, f, t) ==
    handleKeypad(handleFingerprint(s, f, t), key, NoInput, t)

\* the keys and sensor answers that offer the stored credential and a match
BothOffered ==
    {kf \in Keys \X FpPolls(templates) :
        KeyOffer(kf[1]) = "pin" /\ kf[2].r = "match"}

OneGrantFlagsClear(r) ==
    r.unlocked = 1 /\ ~r.pin_verified /\ ~r.fingerprint_verified

\* C30: in TWO_FACTOR mode a correct PIN and a fingerprint match arriving in
\* the same iteration of loop() (keypad first) end in one grant with both
\* verification flags clear, and so do the two arriving in separate
\* iterations in either order.
C30_SamePassSameResult ==
    getAuthMode(eeprom) = TWO_FACTOR =>
        \A kf \in BothOffered :
            /\ OneGrantFlagsClear(loopPass(Globals, kf[1], kf[2], now))
            /\ OneGrantFlagsClear(fingerThenKey(Globals, kf[1], kf[2], now))

\* C31: setup() on blank storage (byte 0 reads 0xFF) writes the default PIN
\* 123456, and 123456 typed next is verified and unlocks; on storage that holds
\* a credential setup() leaves the stored PIN and the mode byte as they were.
C31_SetupSeedsOrKeeps ==
    /\ LET r == setup(PowerOn(BlankEeprom, templates))
           v == TypeRun([r EXCEPT !.out = "none"], DEFAULT_PIN, 0)
       IN  /\ getPassword(r.eeprom) = DEFAULT_PIN
           /\ r.eeprom[AUTH_MODE_ADDR] = EEPROM_BLANK
           /\ v.out = "pin_ok" /\ v.unlocked = 1
    /\ eeprom[0] # EEPROM_BLANK
    /\ setup(PowerOn(eeprom, templates)).eeprom = eeprom
    /\ (last.kind = "boot" /\ getPassword(eeprom) = DEFAULT_PIN) =>
          TypeRun(Globals, DEFAULT_PIN, now).out = "pin_ok"

\* the default PIN accepted on a device whose mode byte was never written
C31_Witness ==
    /\ last.kind = "pin_ok" /\ last.offer = "pin" /\ last.unlocked = 1
    /\ getPassword(eeprom) = DEFAULT_PIN
    /\ eeprom[AUTH_MODE_ADDR] = EEPROM_BLANK

\* the digit strings of up to n digits drawn from the lowest and the highest
StoreDigits == {DigitChar(0), DigitChar(9)}

RECURSIVE DigitStrings(_)
DigitStrings(n) ==
    IF n = 0 THEN {<<>>}
    ELSE LET S == DigitStrings(n - 1)
         IN  S \cup {Append(s, d) : s \in {x \in S : Len(x) = n - 1}, d \in StoreDigits}

StorePins == DigitStrings(PIN_LENGTH) \ {<<>>}

\* changePassword() reached by the '*' gesture, the stored PIN typed at the
\* first prompt and any string of StorePins, none, or one too long at the second
StoreGesture ==
    /\ ~PinWindowRunning(Globals, now)
    /\ \E s \in {PressRun(Globals, KEY_STAR, STAR_THRESHOLD - star_count - 1, now)} :
       \E n \in StorePins \cup {<<>>, LONG_PIN} :
       \E inp \in {[NoInput EXCEPT !.cur = getPassword(eeprom), !.new = n]} :
       \E r \in {handleKeypad([s EXCEPT !.out = "none"], KEY_STAR, inp, now)} :
          Return(r) /\ History(r, "key", "none", AdminOffer(inp))
    /\ UNCHANGED now

NextStore == StoreGesture \/ HashGesture

\* the credential store under changePassword() and the admin menu
StoreSpec == Init /\ [][NextStore]_vars

\* C32: getPassword() after setPassword(p) returns p, for every digit string
\* p of 1..PIN_LENGTH digits; setPassword() writes bytes 0..5 only, p then
\* zeros, and leaves the mode byte; setAuthMode() leaves bytes 0..5; the
\* stored PIN always has 1..PIN_LENGTH characters.
C32_StoreRoundTrip ==
    /\ \A p \in StorePins :
          LET e == setPassword(eeprom, p)
          IN  /\ getPassword(e) = p
              /\ \A a \in EepromAddrs :
                    e[a] = IF a >= PIN_LENGTH THEN eeprom[a]
                           ELSE IF a < Len(p) THEN p[a + 1] ELSE 0
    /\ \A m \in {SINGLE_FACTOR, TWO_FACTOR} :
          \A a \in 0..(PIN_LENGTH - 1) : setAuthMode(eeprom, m)[a] = eeprom[a]
    /\ Len(getPassword(eeprom)) \in 1..PIN_LENGTH
    /\ last.kind = "pin_changed" =>
          getPassword(eeprom) \in StorePins /\ getAuthMode(eeprom) = last.preMode

\* a one-digit PIN stored over a longer one on a device in TWO_FACTOR mode
C32_Witness ==
    /\ last.kind = "pin_changed"
    /\ getPassword(eeprom) = <<DigitChar(0)>>
    /\ eeprom[AUTH_MODE_ADDR] = TWO_FACTOR

\* loop() -> handleFingerprint() with any answer of the sensor
SensorPoll ==
    \E f \in SensorPolls(templates) :
        /\ \E r \in {handleFingerprint(Globals, f, now)} :
              Return(r) /\ History(r, "fp", "poll", f.r)
        /\ UNCHANGED now

NextSensor == Submit \/ SensorPoll \/ Tick

\* the locker with a sensor that may fail at every call
SensorSpec == InitAuth /\ [][NextSensor]_vars

\* what the sensor answers when there is no finger, when the communication
\* fails, and when the image cannot be converted
NotASearch == {"nofinger", "imgerr", "comm_image", "comm_convert", "comm_search"}

\* C33: a poll in which the sensor reports no finger, a communication failure
\* or an image-conversion error never increments wrong_fp_attempts and never
\* starts a fingerprint lockout; a correct PIN in SINGLE_FACTOR mode unlocks
\* whatever the sensor has answered.
C33_OnlyNoMatchCounts ==
    [][/\ last'.offer \in NotASearch =>
             /\ wrong_fp_attempts' <= wrong_fp_attempts
             /\ is_fp_locked_out' => is_fp_locked_out
       /\ (last'.offer = "pin" /\ last'.preMode = SINGLE_FACTOR /\ ~last'.inWindow) =>
             last'.unlocked = 1]_vars

\* a pass of LOCKER_V3.cpp loop(); a new lockout starts only while the clock
\* is below its bound
LivePass ==
    /\ V3Pass
    /\ (shared'.lockout_mode /\ ~shared.lockout_mode) => now <= MaxTicks * TickMs

\* time passes; it keeps passing beyond the clock's bound until a running
\* lockout has lasted LOCKOUT_DURATION
LiveTick ==
    /\ \/ now + TickMs <= MaxTicks * TickMs
       \/ /\ shared.lockout_mode
          /\ ElapsedLess(now, shared.lockout_start_time, LOCKOUT_DURATION)
    /\ now' = now + TickMs
    /\ shared' = [shared EXCEPT !.log = <<>>]
    /\ UNCHANGED <<progVars, last_activity, histVars, fails, enroll>>

NextLive == LivePass \/ LiveTick

\* loop() keeps being called and time keeps advancing
LiveV3Spec ==
    InitShared /\ [][NextLive]_vars /\ WF_vars(LivePass) /\ WF_vars(LiveTick)

\* C34: in LOCKER_V3.cpp a lockout, once set, is eventually lifted with
\* wrong_attempts back at 0, and it is not lifted before LOCKOUT_DURATION has
\* elapsed since lockout_start_time.
C34_LockoutEndsOnTime ==
    /\ shared.lockout_mode ~> (~shared.lockout_mode /\ shared.wrong_attempts = 0)
    /\ [][(shared.lockout_mode /\ ~shared'.lockout_mode) =>
            /\ ~ElapsedLess(now, shared.lockout_start_time, LOCKOUT_DURATION)
            /\ shared'.wrong_attempts = 0]_vars

\* a lockout that started after the clock had advanced has just been lifted
C34_Witness ==
    /\ \E i \in 1..Len(shared.log) : shared.log[i] = "expire"
    /\ ~shared.lockout_mode /\ shared.wrong_attempts = 0
    /\ shared.lockout_start_time > 0

\* C35: at most one of pin_verified and fingerprint_verified is true; a flag
\* becomes true only in a handler that read the mode as TWO_FACTOR; and
\* fingerprint_verified implies a non-zero verified_fingerprint_id.
C35_FlagsExclusive ==
    /\ [](~(pin_verified /\ fingerprint_verified))
    /\ [](fingerprint_verified => verified_fingerprint_id # 0)
    /\ [][(\/ pin_verified' /\ ~pin_verified
           \/ fingerprint_verified' /\ ~fingerprint_verified) =>
              last'.preMode = TWO_FACTOR]_vars

\* a match that unlocks in SINGLE_FACTOR mode while the flag of an earlier
\* match, left by a mode toggle, is still set
C35_Witness ==
    /\ last.kind = "fp_ok" /\ last.unlocked = 1 /\ last.preMode = SINGLE_FACTOR
    /\ last.preFp /\ fingerprint_verified /\ ~pin_verified

\* C36: both failure counters stay within 0..MAX_WRONG_ATTEMPTS, and a
\* modality whose lockout flag is false has its counter below
\* MAX_WRONG_ATTEMPTS.
C36_CountersBounded ==
    /\ wrong_pin_attempts \in 0..MAX_WRONG_ATTEMPTS
    /\ wrong_fp_attempts \in 0..MAX_WRONG_ATTEMPTS
    /\ ~is_pin_locked_out => wrong_pin_attempts < MAX_WRONG_ATTEMPTS
    /\ ~is_fp_locked_out => wrong_fp_attempts < MAX_WRONG_ATTEMPTS

\* the PIN locked out at its fifth failure, the fingerprint one failure short
C36_Witness ==
    /\ is_pin_locked_out /\ wrong_pin_attempts = MAX_WRONG_ATTEMPTS
    /\ ~is_fp_locked_out /\ wrong_fp_attempts = MAX_WRONG_ATTEMPTS - 1

\* Ok holds of what '#' leaves when pressed once on an empty buffer, and of
\* what the whole admin gesture leaves: '#' pressed until hash_count reaches
\* HASH_THRESHOLD, then the prompts answered as in HashInputs
AfterEmptyHash(Ok(_)) ==
    input_password = <<>> =>
        /\ \A r \in {handleKeypad(Globals, KEY_HASH, NoInput, now)} : Ok(r)
        /\ \A s \in {PressRun(Globals, KEY_HASH, HASH_THRESHOLD - hash_count - 1, now)} :
           \A inp \in HashInputs :
           \A r \in {handleKeypad([s EXCEPT !.out = "none"], KEY_HASH, inp, now)} :
              Ok(r)

CounterLeft(r) ==
    /\ r.out \notin PinVerdicts
    /\ r.wrong_pin_attempts = wrong_pin_attempts
    /\ r.is_pin_locked_out => is_pin_locked_out

CounterNotRaised(r) ==
    /\ r.out \notin PinVerdicts
    /\ r.wrong_pin_attempts =
          IF is_pin_locked_out /\ ~PinWindowRunning(Globals, now)
          THEN 0 ELSE wrong_pin_attempts
    /\ r.is_pin_locked_out => is_pin_locked_out

\* C37: '#' pressed on an empty buffer never calls checkPassword and never
\* changes wrong_pin_attempts, so the twelve-press '#' gesture from an empty
\* buffer neither consumes PIN attempts nor locks out the PIN.
C37_EmptyHashLeavesCounter == AfterEmptyHash(CounterLeft)

\* C37 as amended: '#' pressed on an empty buffer never calls checkPassword,
\* never raises wrong_pin_attempts and never starts a PIN lockout; it changes
\* the counter only by lifting a lockout whose window has elapsed, which sets
\* it to 0.
C37_EmptyHashNeverCounts == AfterEmptyHash(CounterNotRaised)

\* the admin gesture was completed with PIN failures on the counter, which
\* it left there
C37_Witness ==
    /\ last.offer = "admin" /\ last.kind \notin PinVerdicts
    /\ wrong_pin_attempts = MAX_WRONG_ATTEMPTS - 1 /\ ~is_pin_locked_out

\* a uint32_t as its two 16-bit halves <<high, low>>; a time that is not
\* reduced modulo 2^32 has a high part of HALF or more
HALF == 65536

\* what millis() reads at the time T
millis32(T) == <<T[1] % HALF, T[2]>>

\* a - b in uint32_t arithmetic
Sub32(a, b) ==
    LET lo == a[2] - b[2]
        borrow == IF lo < 0 THEN 1 ELSE 0
    IN  <<(a[1] - b[1] - borrow) % HALF, lo % HALF>>

\* d < limit for a limit below HALF
Less32(d, limit) == d[1] = 0 /\ d[2] < limit

\* the time e after the time T
AddWide(T, e) ==
    LET lo == T[2] + e[2] IN <<T[1] + e[1] + (lo \div HALF), lo % HALF>>

\* lockout starts before, at and after the middle of the clock's range, and at
\* its last millisecond
ClockStarts == {<<0, 0>>, <<0, 29999>>, <<32767, 65535>>, <<32768, 0>>,
                <<65535, 35536>>, <<65535, 65535>>}

\* elapsed times below 2^32 ms
ClockElapsed == {<<0, 0>>, <<0, 1>>, <<0, 29999>>, <<0, 30000>>, <<0, 30001>>,
                 <<0, 65535>>, <<1, 0>>, <<32768, 0>>, <<65535, 65535>>}

\* the milliseconds finger.getImage() takes when a finger is on the sensor
ImageDelays == {5, 50}

TimedPolls(enrolled) ==
    {[r |-> f.r, id |-> f.id, ms |-> d] : f \in FpPolls(enrolled), d \in ImageDelays}

\* loop() -> handleFingerprint(), the sensor taking f.ms to answer
TimedPoll ==
    \E f \in TimedPolls(templates) :
        /\ \E r \in {handleFingerprint(Globals, f, now)} :
              Return(r) /\ History(r, "fp", "poll",
                                   IF f.r = "match" THEN "match" ELSE "none")
        /\ UNCHANGED now

\* the steps of the clock: half a lockout window and all of it, less 2 ms and
\* less 4 ms
ClockSteps == {14998, 29996}

\* time passes while the device is kept awake
ClockTick ==
    \E d \in ClockSteps :
        /\ now + d <= MaxTicks * TickMs
        /\ now' = now + d
        /\ last_activity' = now'
        /\ last' = IdleOutcome("none", pin_verified, fingerprint_verified,
                               getAuthMode(eeprom))
        /\ UNCHANGED <<progVars, pinSince, fpSince, pinFresh, fpFresh, consecPin,
                       consecFp, shared, fails, enroll>>

NextClock == Submit \/ TimedPoll \/ ClockTick

\* the locker with a clock that stops just short of the end of a window
ClockSpec == InitAuth /\ [][NextClock]_vars

\* C38: (millis() - lockout_start) < LOCKOUT_TIME in uint32_t arithmetic is
\* true exactly when fewer than LOCKOUT_TIME ms have elapsed, also across a
\* wrap of the clock at 2^32; and the remaining seconds shown on a rejection
\* lie between 0 and LOCKOUT_TIME / 1000.
C38_WindowTestExact ==
    /\ \A s \in ClockStarts, e \in ClockElapsed :
          Less32(Sub32(millis32(AddWide(s, e)), millis32(s)), LOCKOUT_TIME)
              <=> (e[1] = 0 /\ e[2] < LOCKOUT_TIME)
    /\ last.kind \in {"pin_locked", "fp_locked"} =>
          last.remaining \in 0..(LOCKOUT_TIME \div 1000)
    /\ last.kind \notin {"pin_locked", "fp_locked"} => last.remaining = -1

\* enrollFingerprint(), line 1466: a non-zero identity was confirmed at the
\* prompt and getFingerprintEnroll() is entered
EnrollBegin ==
    /\ enroll.pc = "idle"
    /\ \E id \in {1, 2} :
          enroll' = [pc |-> "capture1", waited |-> 0, id |-> id, stored |-> FALSE]
    /\ UNCHANGED <<progVars, last_activity, now, histVars, shared, fails>>

\* one pass of the wait loop getFingerprintEnroll() is in, or, after it has
\* returned, lines 1469-1470 of enrollFingerprint() and the return to loop()
EnrollRun ==
    /\ enroll.pc # "idle"
    /\ \E a \in SensorAnswers :
       \E e \in {getFingerprintEnrollStep(enroll, a)} :
          /\ enroll' = e
          /\ templates' = IF e.stored THEN templates \cup {e.id % UINT8_MOD}
                          ELSE templates
          /\ last_activity' = IF e.pc = "idle" THEN now ELSE last_activity
    /\ UNCHANGED <<eeprom, input_password, star_count, hash_count,
                   pin_verified, fingerprint_verified, verified_fingerprint_id,
                   wrong_pin_attempts, wrong_fp_attempts,
                   pin_lockout_start, fp_lockout_start,
                   is_pin_locked_out, is_fp_locked_out, relay,
                   now, histVars, shared, fails>>

NextEnroll == EnrollBegin \/ EnrollRun

\* an enrollment, the wait loops running on
EnrollSpec == Init /\ [][NextEnroll]_vars /\ WF_vars(EnrollRun)

\* C39: once the identity is confirmed, enrollFingerprint() returns to the
\* polling loop whatever the sensor answers; a capture wait is left once
\* FINGERPRINT_TIMEOUT_MS have passed and the removal wait once 5 s have; a
\* failed attempt is not retried.
C39_EnrollmentReturns ==
    /\ (enroll.pc # "idle") ~> (enroll.pc = "idle")
    /\ [][/\ (enroll.pc \in {"capture1", "capture2"}
                /\ ~(enroll.waited < FINGERPRINT_TIMEOUT_MS)) =>
                   enroll'.pc = "return" /\ ~enroll'.stored
          /\ (enroll.pc = "removal" /\ ~(enroll.waited < REMOVAL_WAIT_MS)) =>
                   enroll'.pc = "capture2"
          /\ enroll'.pc = "capture1" => enroll.pc \in {"idle", "capture1"}]_vars

\* the finger was not placed again: the second capture wait has timed out
C39_Witness ==
    /\ enroll.pc = "capture2"
    /\ ~(enroll.waited < FINGERPRINT_TIMEOUT_MS)

====
